---- MODULE Spec2Model ----
(***************************************************************************)
(* A model of the compile-time instrumentation driver                      *)
(* (opentelemetry-go-compile-instrumentation): the command-line helpers of *)
(* tool/util, the version matcher of the setup phase, the generator of the *)
(* runtime-wiring file otel.runtime.go and the compile shim (toolexec).    *)
(*                                                                         *)
(* Strings are sequences of one-character strings, so that splitting,      *)
(* joining and substring tests are computed as the code computes them.     *)
(***************************************************************************)
EXTENDS Integers, Sequences, FiniteSets, TLC

VARIABLES
    windows,      \* util.IsWindows(): the host the tool runs on
    splitPc,      \* SplitCompileCmds caller: "idle" | "done"
    splitInput,   \* the line handed to SplitCompileCmds
    splitJoined,  \* whether the line was joined from an argument list
    splitArgv,    \* the argument list the line was joined from
    splitOut,     \* the tokens SplitCompileCmds returned
    mvPc,         \* matchVersion caller: "idle" | "done"
    mvDepVersion, \* Dependency.Version
    mvRuleVersion, \* rule.GetVersion()
    mvResult,     \* what matchVersion returned
    adRuleSets,   \* the matched rule sets of the project, by module path
    requiredImports, \* the package-level map requiredImports: path -> alias
    otelRuntime,  \* otel.runtime.go: NoFile, or its declarations in order
    adRuns,       \* how many times addDeps has run
    adChanged,    \* some run of addDeps changed an otel.runtime.go already written
    shArgs,       \* Toolexec: the argv the build tool handed to the shim
    shEnv,        \* OTEL_MATCHED_MODULES in the shim's environment: [set, value]
    shPc,         \* Toolexec: "start" | "intercept" | "fileRules" | "files" | "rules" | "done" | "failed"
    shAllSet,     \* the rule sets load() returned
    shMatched,    \* the rule set match() returned (NoRuleSet for nil)
    shCompileArgs, \* ip.compileArgs
    shFileRuleIdx, \* instrument: the file rule to apply next
    shPending,    \* instrument: the keys of groupRules(rset) not yet visited
    shFile,       \* instrument: the source file being rewritten
    shRules,      \* instrument: the filtered rules of shFile not yet applied
    shHasFuncRule, \* instrument: hasFuncRule
    shApplied,    \* the rules applied so far, in order, each with its file
    shLoaded,     \* matched.json has been read
    shWritten,    \* the files the shim has written
    shExecuted,   \* the argv handed to util.RunCmd (NoCmd before)
    shErr,        \* the error Toolexec returned ("" for none)
    btPc,         \* GetBuildTarget caller: "idle" | "done"
    btArgs,       \* goBuildCmd
    btTarget,     \* what GetBuildTarget returned
    cgPc,         \* ResolveCgoFile caller: "idle" | "done"
    cgFile,       \* cgoFile
    cgSourceDir,  \* sourceDir
    cgDisk,       \* the files that exist on disk
    cgResult,     \* what ResolveCgoFile returned: [path, err]
    rmPc,         \* runMatch: "start" | "sources" | "done" | "failed"
    rmAllRules,   \* the rules rule.LoadAllRules returned
    rmDep,        \* the dependency: [importPath, version, sources, broken]
    rmPrecise,    \* runMatch: preciseRules
    rmIdx,        \* runMatch: the source to parse next
    rmSet,        \* runMatch: set
    rmPackage,    \* runMatch: the package name set on set
    rmParsed,     \* the sources handed to ast.ParseFileFast, in order
    rmResult,     \* what runMatch returned: [set, err]
    ldPc,         \* LoadAllRules: "files" | "done" | "failed" | "panicked"
    ldAvailables, \* the embedded rule files, each the declarations it holds
    ldIdx,        \* LoadAllRules: the file to parse next
    ldParsed,     \* LoadAllRules: parsedRules
    ldResult,     \* what LoadAllRules returned: [rules, err]
    gpPc,         \* GetBuildPackages: "loop" | "default" | "done" | "failed"
    gpArgs,       \* GetBuildPackages: args
    gpPatterns,   \* the package patterns args ends with
    gpDriverFails, \* packages.Load returns an error (the go command cannot be run)
    gpI,          \* GetBuildPackages: i, counted from 1
    gpBuildPkgs,  \* GetBuildPackages: buildPkgs
    gpFound,      \* GetBuildPackages: found
    gpResult,     \* what GetBuildPackages returned: [pkgs, err]
    gbPc,         \* GoBuild: the step to run next
    gbPkgs,       \* Setup: pkgs, each [module, pkgDir, moduleDir]
    gbPatterns,   \* BuildWithToolexec: len(pkgPatterns)
    gbIdx,        \* Setup: the package to process next
    gbProcessedPkgDirs, \* Setup: processedPkgDirs
    gbProcessedModDirs, \* Setup: processedModDirs
    gbCommands,   \* the commands started with util.RunCmd, in order
    gbSetup,      \* Setup: "pending" | "running" | "ok" | "failed"
    gbBuilt,      \* BuildWithToolexec: the patterns built so far
    gbResult,     \* what GoBuild returned: "" (not yet) | "nil" | "err"
    gbLog,        \* Setup: the stages run so far, each [stage, pkg, ok]
    gbRuntimeFiles, \* the directories that hold an otel.runtime.go
    gbBackup,     \* the files util.BackupFile copied to the backup directory
    gbDirty,      \* the files that differ from what they were when GoBuild started
    gbCleanupFailed,\* the steps of the deferred clean-up that failed (logged only)
    mdPc,         \* matchDeps: "load" | "spawn" | "wait" | "done"
    mdDeps,       \* deps, each with what runMatch returns for it
    mdNext,       \* matchDeps: the dependency the loop hands to g.Go next
    mdTask,       \* the worker of each dependency: "new", "running", "matched", "locked", "read", "written", "finished"
    mdLocal,      \* the value of matched each worker read for its append
    mdMatched,    \* matchDeps: matched, as indices into deps
    mdMu,         \* matchDeps: mu, the worker that holds it or 0
    mdErr,        \* the errgroup: the first error a worker returned
    mdCancelled,  \* ctx has been cancelled
    mdPending,    \* the dependencies whose worker had not started when ctx was cancelled
    mdResult,     \* what matchDeps returned: [returned, list, err]
    sdPc,         \* syncDeps: "start" | "rules" | "write" | "vendor" | "copy" | "returned" | "panicked"
    sdRules,      \* syncDeps: the hook paths of the matched function rules
    sdManifest,   \* go.mod on disk: its replace directives, each [old, new]
    sdManifest0,  \* go.mod as it was before the first run
    sdModfile,    \* syncDeps: modfile, go.mod as parsed
    sdVendor,     \* a vendor directory exists
    sdMissing,    \* the modules whose local path does not exist
    sdCopyFails,  \* the modules whose copyDir fails
    sdIdx,        \* syncDeps: the rule of the loop
    sdChanged,    \* syncDeps: changed
    sdAdded,      \* the paths this run added a replace directive for
    sdWrote,      \* this run called writeGoMod
    sdCommands,   \* the commands this run started
    sdToCopy,     \* copyInstrumentationToVendor: the keys of pkgPaths not visited yet
    sdVisited,    \* copyInstrumentationToVendor: the keys visited, in order
    sdCopied,     \* copyInstrumentationToVendor: the modules copied to vendor/
    sdRuns,       \* the runs of syncDeps so far
    sdErr,        \* what the run returned: "" for nil
    fvPc,         \* findDeps, version of a dependency: "sources" | "done"
    fvSources,    \* findDeps: dep.Sources
    fvVersion,    \* findDeps: dep.Version
    coPc,         \* findCgoObjDirs: "scan" | "returned" | "panicked"
    coLog,        \* the lines of the build plan log
    coLine,       \* findCgoObjDirs: the line the scanner is at
    coCurrentDir, \* findCgoObjDirs: currentDir
    coMap,        \* findCgoObjDirs: cgoDirsMap, as [objDir, dir] entries
    mfMatched,    \* the module paths of the rule sets Setup stored, in order
    mfAmbient,    \* OTEL_MATCHED_MODULES in the environment of the build wrapper
    mfExported,   \* the wrapper exported OTEL_MATCHED_MODULES
    ffPc,         \* FindFlagValue caller: "call" | "returned" | "panicked"
    ffCmd,        \* FindFlagValue: cmd
    ffFlag,       \* FindFlagValue: flag
    ffValue       \* what FindFlagValue returned

splitVars == <<splitPc, splitInput, splitJoined, splitArgv, splitOut>>
mvVars == <<mvPc, mvDepVersion, mvRuleVersion, mvResult>>
adVars == <<adRuleSets, requiredImports, otelRuntime, adRuns, adChanged>>
shVars == <<shArgs, shEnv, shPc, shAllSet, shMatched, shCompileArgs, shFileRuleIdx, shPending,
            shFile, shRules, shHasFuncRule, shApplied, shLoaded, shWritten, shExecuted, shErr>>
btVars == <<btPc, btArgs, btTarget>>
cgVars == <<cgPc, cgFile, cgSourceDir, cgDisk, cgResult>>
rmVars == <<rmPc, rmAllRules, rmDep, rmPrecise, rmIdx, rmSet, rmPackage, rmParsed, rmResult>>
ldVars == <<ldPc, ldAvailables, ldIdx, ldParsed, ldResult>>
gpVars == <<gpPc, gpArgs, gpPatterns, gpDriverFails, gpI, gpBuildPkgs, gpFound, gpResult>>
gbVars == <<gbPc, gbPkgs, gbPatterns, gbIdx, gbProcessedPkgDirs, gbProcessedModDirs, gbCommands, gbSetup, gbBuilt, gbResult,
           gbLog, gbRuntimeFiles, gbBackup, gbDirty, gbCleanupFailed>>
mdVars == <<mdPc, mdDeps, mdNext, mdTask, mdLocal, mdMatched, mdMu, mdErr, mdCancelled, mdPending, mdResult>>
sdVars == <<sdPc, sdRules, sdManifest, sdManifest0, sdModfile, sdVendor, sdMissing, sdCopyFails, sdIdx, sdChanged, sdAdded, sdWrote, sdCommands, sdToCopy, sdVisited, sdCopied, sdRuns, sdErr>>
fvVars == <<fvPc, fvSources, fvVersion>>
coVars == <<coPc, coLog, coLine, coCurrentDir, coMap>>
mfVars == <<mfMatched, mfAmbient, mfExported>>
ffVars == <<ffPc, ffCmd, ffFlag, ffValue>>
\* The state of the parts modelled after the compile shim.
lateVars == <<btVars, cgVars, rmVars, ldVars, gpVars, gbVars, mdVars, sdVars, fvVars, coVars, mfVars, ffVars>>
vars == <<windows, splitVars, mvVars, adVars, shVars, lateVars>>

(***************************************************************************)
(* Characters and strings                                                  *)
(***************************************************************************)
SP == " "
QUOTE == "\""
TAB == "\t"
BSLASH == "\\"

\* All sequences over alphabet of length at most n.
RECURSIVE StringsUpTo(_, _)
StringsUpTo(alphabet, n) ==
    IF n = 0 THEN {<<>>}
    ELSE LET shorter == StringsUpTo(alphabet, n - 1)
         IN  shorter \cup {Append(s, c) : s \in {t \in shorter : Len(t) = n - 1}, c \in alphabet}

\* strings.Join(elems, sep)
RECURSIVE Join(_, _)
Join(elems, sep) ==
    IF Len(elems) = 0 THEN <<>>
    ELSE IF Len(elems) = 1 THEN elems[1]
    ELSE elems[1] \o sep \o Join(Tail(elems), sep)

\* strings.Contains(s, sub)
Contains(s, sub) ==
    \E i \in 1..(Len(s) - Len(sub) + 1) : SubSeq(s, i, i + Len(sub) - 1) = sub

\* strings.ReplaceAll(s, old, new) for a non-empty old: non-overlapping
\* occurrences, left to right.
RECURSIVE ReplaceAll(_, _, _)
ReplaceAll(s, old, new) ==
    IF Len(s) < Len(old) THEN s
    ELSE IF SubSeq(s, 1, Len(old)) = old
         THEN new \o ReplaceAll(SubSeq(s, Len(old) + 1, Len(s)), old, new)
         ELSE <<s[1]>> \o ReplaceAll(Tail(s), old, new)

(***************************************************************************)
(* util.SplitCompileCmds                                                   *)
(***************************************************************************)
\* The scanning loop: position i, the inQuotes flag, the token being built
\* (arg) and the tokens finished so far (args).
RECURSIVE SplitLoop(_, _, _, _, _)
SplitLoop(input, i, inQuotes, arg, args) ==
    IF i > Len(input)
    THEN IF Len(arg) > 0 THEN Append(args, arg) ELSE args
    ELSE LET c == input[i]
         IN  IF c = QUOTE
             THEN SplitLoop(input, i + 1, ~inQuotes, arg, args)
             ELSE IF c = SP /\ ~inQuotes
                  THEN IF Len(arg) > 0
                       THEN SplitLoop(input, i + 1, inQuotes, <<>>, Append(args, arg))
                       ELSE SplitLoop(input, i + 1, inQuotes, arg, args)
                  ELSE SplitLoop(input, i + 1, inQuotes, Append(arg, c), args)

\* The Windows pass: every `\\` of a token becomes `\`.
FixBackslashes(args, isWindows) ==
    IF isWindows
    THEN [k \in 1..Len(args) |-> ReplaceAll(args[k], <<BSLASH, BSLASH>>, <<BSLASH>>)]
    ELSE args

\* A splitter that forgets the token still being built when the input ends.
RECURSIVE SplitLoopNoFlush(_, _, _, _, _)
SplitLoopNoFlush(input, i, inQuotes, arg, args) ==
    IF i > Len(input)
    THEN args
    ELSE LET c == input[i]
         IN  IF c = QUOTE
             THEN SplitLoopNoFlush(input, i + 1, ~inQuotes, arg, args)
             ELSE IF c = SP /\ ~inQuotes
                  THEN IF Len(arg) > 0
                       THEN SplitLoopNoFlush(input, i + 1, inQuotes, <<>>, Append(args, arg))
                       ELSE SplitLoopNoFlush(input, i + 1, inQuotes, arg, args)
                  ELSE SplitLoopNoFlush(input, i + 1, inQuotes, Append(arg, c), args)

SplitCompileCmdsNoFlush(input, isWindows) ==
    FixBackslashes(SplitLoopNoFlush(input, 1, FALSE, <<>>, <<>>), isWindows)

\* A splitter that splits at every space, quoted or not.
RECURSIVE SplitLoopIgnoreQuotes(_, _, _, _, _)
SplitLoopIgnoreQuotes(input, i, inQuotes, arg, args) ==
    IF i > Len(input)
    THEN IF Len(arg) > 0 THEN Append(args, arg) ELSE args
    ELSE LET c == input[i]
         IN  IF c = QUOTE
             THEN SplitLoopIgnoreQuotes(input, i + 1, ~inQuotes, arg, args)
             ELSE IF c = SP
                  THEN IF Len(arg) > 0
                       THEN SplitLoopIgnoreQuotes(input, i + 1, inQuotes, <<>>, Append(args, arg))
                       ELSE SplitLoopIgnoreQuotes(input, i + 1, inQuotes, arg, args)
                  ELSE SplitLoopIgnoreQuotes(input, i + 1, inQuotes, Append(arg, c), args)

SplitCompileCmdsIgnoreQuotes(input, isWindows) ==
    FixBackslashes(SplitLoopIgnoreQuotes(input, 1, FALSE, <<>>, <<>>), isWindows)

SplitCompileCmds(input, isWindows) ==
    FixBackslashes(SplitLoop(input, 1, FALSE, <<>>, <<>>), isWindows)

(***************************************************************************)
(* The linker-file generator: setup.addDeps and otel.runtime.go            *)
(*                                                                         *)
(* A function rule is [path, before, after]: the hook module and the two   *)
(* hook names ("" for none).  A rule set holds the function rules of one   *)
(* source file of its module.  A declaration of the generated file is an   *)
(* import [alias, path], a variable [name, index, link] or a body-less     *)
(* function [name, link], link being the go:linkname target <<path, sym>>. *)
(***************************************************************************)
MaxFuncRules == 1
MaxRuns == 2

\* No otel.runtime.go: a written file holds at least the three fixed imports.
NoFile == <<>>

HookPaths == {"hookA", "hookB"}
FuncRule(path, before, after) == [path |-> path, before |-> before, after |-> after]
FuncRules ==
    {FuncRule(p, h[1], h[2]) :
        p \in HookPaths,
        h \in {<<"H1Before", "H1After">>, <<"H1Before", "">>, <<"H2Before", "H1After">>}}

ModulePaths == {"main", "dep"}

\* The requiredImports literal.
InitialImports ==
    [k \in {"runtime/debug", "log", "unsafe"} |->
        IF k = "runtime/debug" THEN "_otel_debug" ELSE IF k = "log" THEN "_otel_log" ELSE "_"]

ImportDecl(alias, path) == [kind |-> "import", alias |-> alias, path |-> path]
VarDecl(name, index, link) == [kind |-> "var", name |-> name, index |-> index, link |-> link]
HookDecl(name, link) == [kind |-> "func", name |-> name, link |-> link]

\* The orders in which a range over a map with key set K may visit it.
RECURSIVE MapOrders(_)
MapOrders(K) ==
    IF K = {} THEN {<<>>}
    ELSE UNION {{<<k>> \o o : o \in MapOrders(K \ {k})} : k \in K}

\* genImportDecl's first loop: requiredImports[m.Path] = "_".
ImportsAfter(imports, matched) ==
    [k \in DOMAIN imports \cup {matched[i].path : i \in 1..Len(matched)} |->
        IF \E i \in 1..Len(matched) : matched[i].path = k THEN "_" ELSE imports[k]]

\* genImportDecl's second loop, the map visited in the given order.
genImportDecl(imports, order) ==
    [i \in 1..Len(order) |-> ImportDecl(imports[order[i]], order[i])]

\* genVarDecl: for the first rule of each hook path, at index i (from 0), the
\* variables _getstatck<i> and _printstack<i> linked into that hook module.
RECURSIVE genVarDeclFrom(_, _, _)
genVarDeclFrom(matched, k, uniquePath) ==
    IF k > Len(matched) THEN <<>>
    ELSE IF matched[k].path \in uniquePath
         THEN genVarDeclFrom(matched, k + 1, uniquePath)
         ELSE << VarDecl("_getstatck", k - 1, <<matched[k].path, "OtelGetStackImpl">>),
                 VarDecl("_printstack", k - 1, <<matched[k].path, "OtelPrintStackImpl">>) >>
              \o genVarDeclFrom(matched, k + 1, uniquePath \cup {matched[k].path})

genVarDecl(matched) == genVarDeclFrom(matched, 1, {})

\* genHookLinkNames: one declaration per hook name not seen before, linked
\* into the hook module of the rule that names it first.
RECURSIVE genHookLinkNamesFrom(_, _, _)
genHookLinkNamesFrom(matched, k, seenHooks) ==
    IF k > Len(matched) THEN <<>>
    ELSE LET m == matched[k]
             doBefore == m.before # "" /\ m.before \notin seenHooks
             seen1 == IF doBefore THEN seenHooks \cup {m.before} ELSE seenHooks
             doAfter == m.after # "" /\ m.after \notin seen1
             seen2 == IF doAfter THEN seen1 \cup {m.after} ELSE seen1
         IN  (IF doBefore THEN <<HookDecl(m.before, <<m.path, m.before>>)>> ELSE <<>>)
             \o (IF doAfter THEN <<HookDecl(m.after, <<m.path, m.after>>)>> ELSE <<>>)
             \o genHookLinkNamesFrom(matched, k + 1, seen2)

genHookLinkNames(matched) == genHookLinkNamesFrom(matched, 1, {})

\* addDeps' first loop: the function rules of the rule sets, in list order.
RECURSIVE CollectFuncRules(_)
CollectFuncRules(matched) ==
    IF Len(matched) = 0 THEN <<>>
    ELSE matched[1].funcRules \o CollectFuncRules(Tail(matched))

\* The orders in which the matcher's workers may have appended the non-empty
\* rule sets to the list handed to addDeps.
MatchedLists(ruleSets) ==
    LET nonEmpty == {mp \in DOMAIN ruleSets : Len(ruleSets[mp]) > 0}
    IN  {[i \in 1..Len(o) |-> [modulePath |-> o[i], funcRules |-> ruleSets[o[i]]]] :
            o \in MapOrders(nonEmpty)}

(***************************************************************************)
(* Versions and setup.matchVersion                                         *)
(*                                                                         *)
(* A version string is a sequence of tokens: a version literal             *)
(* vMAJOR.MINOR.PATCH[-pre][+build] is one token, a comma is one token;    *)
(* the empty string is the empty sequence.  pre = 0 is a release, pre = k  *)
(* is the k-th prerelease identifier in ASCII order (1 "-alpha",           *)
(* 2 "-beta"); build = 1 carries build metadata ("+build123").             *)
(***************************************************************************)
MaxNum == 1
PreReleases == {0, 1, 2}

Comma == [kind |-> "comma"]
Literal(major, minor, patch, pre, build) ==
    [kind |-> "version", major |-> major, minor |-> minor, patch |-> patch,
     pre |-> pre, build |-> build]

\* semver's parse: a string is a valid version when it is one literal.
IsValidVersion(v) == Len(v) = 1 /\ v[1].kind = "version"

compareInt(x, y) == IF x = y THEN 0 ELSE IF x < y THEN -1 ELSE 1

\* semver's comparePrerelease: equal, else a release is above any prerelease,
\* else by identifier.
comparePrerelease(x, y) ==
    IF x = y THEN 0
    ELSE IF x = 0 THEN 1
    ELSE IF y = 0 THEN -1
    ELSE compareInt(x, y)

\* semver.Compare(v, w): an invalid version is below every valid one, two
\* invalid versions are equal, build metadata is not looked at.
Compare(v, w) ==
    IF ~IsValidVersion(v) /\ ~IsValidVersion(w) THEN 0
    ELSE IF ~IsValidVersion(v) THEN -1
    ELSE IF ~IsValidVersion(w) THEN 1
    ELSE LET pv == v[1]
             pw == w[1]
         IN  IF compareInt(pv.major, pw.major) # 0 THEN compareInt(pv.major, pw.major)
             ELSE IF compareInt(pv.minor, pw.minor) # 0 THEN compareInt(pv.minor, pw.minor)
             ELSE IF compareInt(pv.patch, pw.patch) # 0 THEN compareInt(pv.patch, pw.patch)
             ELSE comparePrerelease(pv.pre, pw.pre)

\* strings.Index(s, ","): the first comma's position, 0 when there is none
\* (Go's -1).
IndexComma(s) ==
    IF \E i \in 1..Len(s) : s[i] = Comma
    THEN CHOOSE i \in 1..Len(s) : s[i] = Comma /\ \A j \in 1..(i - 1) : s[j] # Comma
    ELSE 0

\* A matcher whose range includes its upper end.
matchVersionInclusiveEnd(dependencyVersion, ruleVersion) ==
    IF ruleVersion = <<>> THEN TRUE
    ELSE IF IndexComma(ruleVersion) # 0
         THEN LET commaIndex == IndexComma(ruleVersion)
                  startInclusive == SubSeq(ruleVersion, 1, commaIndex - 1)
                  endExclusive == SubSeq(ruleVersion, commaIndex + 1, Len(ruleVersion))
              IN  /\ Compare(dependencyVersion, startInclusive) >= 0
                  /\ Compare(dependencyVersion, endExclusive) <= 0
         ELSE Compare(dependencyVersion, ruleVersion) >= 0

matchVersion(dependencyVersion, ruleVersion) ==
    IF ruleVersion = <<>> THEN TRUE
    ELSE IF IndexComma(ruleVersion) # 0
         THEN LET commaIndex == IndexComma(ruleVersion)
                  startInclusive == SubSeq(ruleVersion, 1, commaIndex - 1)
                  endExclusive == SubSeq(ruleVersion, commaIndex + 1, Len(ruleVersion))
              IN  /\ Compare(dependencyVersion, startInclusive) >= 0
                  /\ Compare(dependencyVersion, endExclusive) < 0
         ELSE Compare(dependencyVersion, ruleVersion) >= 0

\* The versions a rule names (no build metadata) and those a dependency has:
\* a literal taken from its source path, or none.
RuleLiterals ==
    {Literal(a, b, c, p, 0) : a \in 0..MaxNum, b \in 0..MaxNum, c \in 0..MaxNum, p \in PreReleases}
DepLiterals ==
    {Literal(a, b, c, p, m) : a \in 0..MaxNum, b \in 0..MaxNum, c \in 0..MaxNum,
                              p \in PreReleases, m \in {0, 1}}
DepVersions == {<<>>} \cup {<<d>> : d \in DepLiterals}
RuleVersions ==
    {<<>>} \cup {<<lo>> : lo \in RuleLiterals}
           \cup {<<lo, Comma, hi>> : lo \in RuleLiterals, hi \in RuleLiterals}

(***************************************************************************)
(* The compile shim: command lines, the environment and the flag helpers   *)
(***************************************************************************)
\* The tokens of the command lines the build tool issues.
FlagO == <<"-", "o">>
FlagP == <<"-", "p">>
FlagComplete == <<"-", "c", "o", "m", "p", "l", "e", "t", "e">>
FlagBuildid == <<"-", "b", "u", "i", "l", "d", "i", "d">>
FlagPgoprofile == <<"-", "p", "g", "o", "p", "r", "o", "f", "i", "l", "e">>
FlagPack == <<"-", "p", "a", "c", "k">>
ToolCompile == <<"c", "o", "m", "p", "i", "l", "e">>
ToolCompileExe == ToolCompile \o <<".", "e", "x", "e">>
ToolAsm == <<"a", "s", "m">>
ToolLink == <<"l", "i", "n", "k">>
Tools == {ToolCompile, ToolCompileExe, ToolAsm, ToolLink}
OutFile == <<"b", "/", "x", ".", "a">>
BuildidValue == <<"i", "d">>
ProfileValue == <<"x", ".", "p", "g", "o">>
PathMain == <<"m", "a", "i", "n">>
PathDep == <<"d", "e", "p">>
FileA == <<"a", ".", "g", "o">>
FileB == <<"b", ".", "g", "o">>
SourceFiles == {FileA, FileB}
COMMA == ","

\* A flag that is present (with its value) or absent.
Optional(seg) == {<<>>, seg}

\* The command lines handed to the shim: a tool followed by flags and the
\* package's source files, as in createCompileArgs of the integration tests
\* (compile -o X -p main -complete -buildid foo/bar -pack main.go).
CommandLines ==
    {<<tool>> \o o \o p \o complete \o buildid \o pgo \o <<FlagPack, FileA, FileB>> :
        tool \in Tools,
        o \in Optional(<<FlagO, OutFile>>),
        p \in {<<>>, <<FlagP, PathMain>>, <<FlagP, PathDep>>},
        complete \in Optional(<<FlagComplete>>),
        buildid \in Optional(<<FlagBuildid, BuildidValue>>),
        pgo \in Optional(<<FlagPgoprofile, ProfileValue>>)}

\* OTEL_MATCHED_MODULES: not in the environment, or present with a value.
\* The build wrapper exports strings.Join(modulePaths, ","), which is the
\* empty string when no module matched.
EnvUnset == [set |-> FALSE, value |-> <<>>]
EnvSet(v) == [set |-> TRUE, value |-> v]
Environments ==
    {EnvUnset} \cup {EnvSet(Join(paths, <<COMMA>>)) :
                        paths \in {<<>>, <<PathMain>>, <<PathDep>>, <<PathMain, PathDep>>}}

\* os.Getenv: the value, or "" when the variable is not present.
Getenv(env) == IF env.set THEN env.value ELSE <<>>

\* strings.Split(s, sep) for a one-character sep.
RECURSIVE SplitOnFrom(_, _, _, _)
SplitOnFrom(s, sep, i, cur) ==
    IF i > Len(s) THEN <<cur>>
    ELSE IF s[i] = sep
         THEN <<cur>> \o SplitOnFrom(s, sep, i + 1, <<>>)
         ELSE SplitOnFrom(s, sep, i + 1, Append(cur, s[i]))

StringsSplit(s, sep) == SplitOnFrom(s, sep, 1, <<>>)

\* util.GetMatchedModules: [nil |-> TRUE] stands for the nil slice.
GetMatchedModules(env) ==
    IF Getenv(env) = <<>>
    THEN [nil |-> TRUE, modules |-> <<>>]
    ELSE [nil |-> FALSE, modules |-> StringsSplit(Getenv(env), COMMA)]

\* An IsModuleMatched without the fallback for a variable that is not set.
IsModuleMatchedListed(modulePath, env) ==
    \E k \in 1..Len(GetMatchedModules(env).modules) :
        GetMatchedModules(env).modules[k] = modulePath

\* util.IsModuleMatched
IsModuleMatched(modulePath, env) ==
    LET got == GetMatchedModules(env)
    IN  IF got.nil THEN TRUE
        ELSE \E k \in 1..Len(got.modules) : got.modules[k] = modulePath

\* util.IsCompileCommand without the -pgoprofile exclusion.
IsCompileCommandWithPgo(line, isWindows) ==
    LET check == {FlagO, FlagP, FlagBuildid,
                  IF isWindows THEN ToolCompileExe ELSE ToolCompile}
    IN  \A id \in check : Contains(line, id)

\* util.IsCompileCommand
IsCompileCommand(line, isWindows) ==
    LET check == {FlagO, FlagP, FlagBuildid,
                  IF isWindows THEN ToolCompileExe ELSE ToolCompile}
    IN  IF \E id \in check : ~Contains(line, id) THEN FALSE
        ELSE IF Contains(line, FlagPgoprofile) THEN FALSE
        ELSE TRUE

\* util.FindFlagValue: cmd[i+1] for the first i with cmd[i] = flag; indexing
\* past the end of the slice panics.
IndexOutOfRange == <<"panic: index out of range">>
FindFlagValue(cmd, flag) ==
    IF \E i \in 1..Len(cmd) : cmd[i] = flag
    THEN LET i == CHOOSE j \in 1..Len(cmd) :
                      cmd[j] = flag /\ \A k \in 1..(j - 1) : cmd[k] # flag
         IN  IF i + 1 <= Len(cmd) THEN cmd[i + 1] ELSE IndexOutOfRange
    ELSE <<>>

\* A stripCompleteFlag that drops the flag and everything after it.
stripCompleteFlagTruncating(args) ==
    IF \E i \in 1..Len(args) : args[i] = FlagComplete
    THEN LET i == CHOOSE j \in 1..Len(args) :
                      args[j] = FlagComplete /\ \A k \in 1..(j - 1) : args[k] # FlagComplete
         IN  SubSeq(args, 1, i - 1)
    ELSE args

\* stripCompleteFlag: removes the first -complete.
stripCompleteFlag(args) ==
    IF \E i \in 1..Len(args) : args[i] = FlagComplete
    THEN LET i == CHOOSE j \in 1..Len(args) :
                      args[j] = FlagComplete /\ \A k \in 1..(j - 1) : args[k] # FlagComplete
         IN  SubSeq(args, 1, i - 1) \o SubSeq(args, i + 1, Len(args))
    ELSE args

(***************************************************************************)
(* The compile shim: rule sets, matched.json and the package's sources     *)
(***************************************************************************)
\* The rules of a rule set: a function rule names a function and a receiver,
\* a struct rule a struct and a new field, a raw rule a function and a text,
\* a file rule a file to add.
Rule(kind, target, recv, detail) ==
    [kind |-> kind, target |-> target, recv |-> recv, detail |-> detail]

HookFunc == Rule("func", "Func1", "", "H1Before")
HookMethod == Rule("func", "Func1", "*T", "H3Before")
HookInvalidReceiver == Rule("func", "Func1", "*NonExistent", "H1Before")
HookAbsentFunc == Rule("func", "Func9", "", "H1Before")
HookFunc2 == Rule("func", "Func2", "", "H2Before")
AddField == Rule("struct", "T", "", "NewField")
AddExistingField == Rule("struct", "T", "", "Existing")
AddRaw == Rule("raw", "Func1", "", "_ = 789")
AddUnparsableRaw == Rule("raw", "Func1", "", "_ = (")
AddFile == Rule("file", "newfile.go", "", "embedded")
AddMissingFile == Rule("file", "nofile.go", "", "not embedded")

\* The source files of the compiled package, as the parser sees them: the
\* identifiers that occur in the text, the declared functions and methods,
\* the declared structs with their fields.
Mentions(file) == IF file = FileA THEN {"Func1", "T"} ELSE {"Func2", "U"}
FuncDecls(file) ==
    IF file = FileA THEN {<<"Func1", "">>, <<"Func1", "*T">>} ELSE {<<"Func2", "">>}
StructFields(file) == IF file = FileA THEN [T |-> {"Existing"}] ELSE [U |-> {}]

\* One rule set of matched.json (rule.InstRuleSet). The rule maps are keyed
\* by source file; a file without rules has the empty list.
RuleSet(modulePath, funcRules, structRules, rawRules, fileRules) ==
    [isNil |-> FALSE, modulePath |-> modulePath,
     funcRules |-> funcRules, structRules |-> structRules,
     rawRules |-> rawRules, fileRules |-> fileRules]

NoRules == [f \in SourceFiles |-> <<>>]
OnFileA(rules) == [f \in SourceFiles |-> IF f = FileA THEN rules ELSE <<>>]
OnFiles(rulesA, rulesB) == [f \in SourceFiles |-> IF f = FileA THEN rulesA ELSE rulesB]

\* The nil *rule.InstRuleSet.
NoRuleSet == [isNil |-> TRUE, modulePath |-> <<>>,
              funcRules |-> NoRules, structRules |-> NoRules,
              rawRules |-> NoRules, fileRules |-> <<>>]

\* InstRuleSet.IsEmpty
IsEmpty(rset) ==
    \/ rset.isNil
    \/ /\ \A f \in SourceFiles : /\ rset.funcRules[f] = <<>>
                                 /\ rset.structRules[f] = <<>>
                                 /\ rset.rawRules[f] = <<>>
       /\ rset.fileRules = <<>>

\* The rule sets matched.json may hold for the module main.
MainRuleSets ==
    {RuleSet(PathMain, OnFiles(fa, fb), OnFileA(st), OnFileA(raw), fl) :
        fa \in {<<>>, <<HookFunc>>, <<HookInvalidReceiver>>, <<HookAbsentFunc>>,
                <<HookFunc, HookMethod>>},
        fb \in {<<>>, <<HookFunc2>>},
        st \in {<<>>, <<AddField>>, <<AddExistingField>>},
        raw \in {<<>>, <<AddRaw>>, <<AddUnparsableRaw>>},
        fl \in {<<>>, <<AddFile>>, <<AddMissingFile>>}}

DepRuleSet == RuleSet(PathDep, OnFiles(<<>>, <<HookFunc2>>), NoRules, NoRules, <<>>)

\* matched.json: absent, not a JSON list of rule sets, or a list of rule sets.
DiskContents ==
    {[state |-> "missing", sets |-> <<>>], [state |-> "corrupt", sets |-> <<>>],
     [state |-> "ok", sets |-> <<>>]}
    \cup {[state |-> "ok", sets |-> <<DepRuleSet, rs>>] : rs \in MainRuleSets}

\* ip.load
load(disk) ==
    IF disk.state = "missing" THEN [err |-> "failed to read file", sets |-> <<>>]
    ELSE IF disk.state = "corrupt"
         THEN [err |-> "failed to load rule sets from JSON", sets |-> <<>>]
         ELSE [err |-> "", sets |-> disk.sets]

\* ip.match: the first rule set whose ModulePath is the import path, or nil.
match(allSet, importPath) ==
    IF \E i \in 1..Len(allSet) : allSet[i].modulePath = importPath
    THEN allSet[CHOOSE i \in 1..Len(allSet) :
                    /\ allSet[i].modulePath = importPath
                    /\ \A k \in 1..(i - 1) : allSet[k].modulePath # importPath]
    ELSE NoRuleSet

\* groupRules: per file, the function rules, then the struct rules, then the
\* raw rules; only files with a rule are keys of the map.
groupRules(rset) ==
    LET all == [f \in SourceFiles |->
                   rset.funcRules[f] \o rset.structRules[f] \o rset.rawRules[f]]
    IN  [f \in {g \in SourceFiles : all[g] # <<>>} |-> all[f]]

\* quickFuncExistsCheck: the function's name occurs in the file's text.
quickFuncExistsCheck(file, fn) == fn \in Mentions(file)

\* The declaration a function or raw rule targets exists in the parsed file.
HasFuncDecl(file, rule) == <<rule.target, rule.recv>> \in FuncDecls(file)

\* A filter that also drops the function rules without a declaration.
RECURSIVE filterRulesByDeclaration(_, _)
filterRulesByDeclaration(file, rules) ==
    IF rules = <<>> THEN <<>>
    ELSE LET r == Head(rules)
             rest == filterRulesByDeclaration(file, Tail(rules))
         IN  IF r.kind = "func"
             THEN IF quickFuncExistsCheck(file, r.target) /\ HasFuncDecl(file, r)
                  THEN <<r>> \o rest ELSE rest
             ELSE <<r>> \o rest

\* filterRulesWithQuickCheck: function rules whose function cannot be in the
\* file are dropped, every other rule is kept.
RECURSIVE filterRulesWithQuickCheck(_, _)
filterRulesWithQuickCheck(file, rules) ==
    IF rules = <<>> THEN <<>>
    ELSE LET r == Head(rules)
             rest == filterRulesWithQuickCheck(file, Tail(rules))
         IN  IF r.kind = "func"
             THEN IF quickFuncExistsCheck(file, r.target) THEN <<r>> \o rest ELSE rest
             ELSE <<r>> \o rest

\* applyFuncRule, applyStructRule, applyRawRule, applyFileRule: the error
\* each returns ("" for nil).
applyFuncRule(rule, file) ==
    IF HasFuncDecl(file, rule) THEN "" ELSE "can not find function"

applyStructRule(rule, file) ==
    IF rule.target \notin DOMAIN StructFields(file) THEN "can not find struct"
    ELSE IF rule.detail \in StructFields(file)[rule.target] THEN "duplicate field"
    ELSE ""

applyRawRule(rule, file) ==
    IF ~HasFuncDecl(file, rule) THEN "can not find function"
    ELSE IF rule = AddUnparsableRaw THEN "failed to parse raw code"
    ELSE ""

applyFileRule(rule) == IF rule = AddMissingFile THEN "failed to read embedded file" ELSE ""

\* The rule kinds after which instrument sets hasFuncRule, and a variant
\* that forgets the raw rules.
SetsHasFuncRuleFuncOnly(kind) == kind = "func"

SetsHasFuncRule(kind) == kind \in {"func", "raw"}

\* The files the shim writes: the rewritten copy of a source file, the file
\* a file rule adds, the globals file.
Rewritten(file) == <<"w", "/">> \o file
AddedFile(rule) == <<"otel.", rule.target>>
GlobalsFile == <<"otel.globals.go">>

\* writeInstrumented's substitution of the new path for the original one.
SubstitutePath(args, file) ==
    [k \in 1..Len(args) |-> IF args[k] = file THEN Rewritten(file) ELSE args[k]]

\* The values of each part of the state before it has run.
SplitIdle ==
    /\ splitPc = "idle"
    /\ splitInput = <<>>
    /\ splitJoined = FALSE
    /\ splitArgv = <<>>
    /\ splitOut = <<>>

MvIdle ==
    /\ mvPc = "idle"
    /\ mvDepVersion = <<>>
    /\ mvRuleVersion = <<>>
    /\ mvResult = FALSE

AdIdle ==
    /\ adRuleSets = [mp \in ModulePaths |-> <<>>]
    /\ requiredImports = InitialImports
    /\ otelRuntime = NoFile
    /\ adRuns = 0
    /\ adChanged = FALSE

ShIdle ==
    /\ shArgs = <<>>
    /\ shEnv = [set |-> FALSE, value |-> <<>>]
    /\ shPc = "idle"
    /\ shAllSet = <<>>
    /\ shMatched = NoRuleSet
    /\ shCompileArgs = <<>>
    /\ shFileRuleIdx = 1
    /\ shPending = {}
    /\ shFile = <<>>
    /\ shRules = <<>>
    /\ shHasFuncRule = FALSE
    /\ shApplied = <<>>
    /\ shLoaded = FALSE
    /\ shWritten = {}
    /\ shExecuted = <<>>
    /\ shErr = ""

BtIdle ==
    /\ btPc = "idle"
    /\ btArgs = <<>>
    /\ btTarget = <<>>

CgIdle ==
    /\ cgPc = "idle"
    /\ cgFile = <<>>
    /\ cgSourceDir = <<>>
    /\ cgDisk = {}
    /\ cgResult = [path |-> <<>>, err |-> ""]

RmIdle ==
    /\ rmPc = "idle"
    /\ rmAllRules = <<>>
    /\ rmDep = [importPath |-> <<>>, version |-> <<>>, sources |-> <<>>, broken |-> {}]
    /\ rmPrecise = <<>>
    /\ rmIdx = 1
    /\ rmSet = NoRuleSet
    /\ rmPackage = ""
    /\ rmParsed = <<>>
    /\ rmResult = [set |-> NoRuleSet, err |-> ""]

LdIdle ==
    /\ ldPc = "idle"
    /\ ldAvailables = <<>>
    /\ ldIdx = 1
    /\ ldParsed = <<>>
    /\ ldResult = [rules |-> <<>>, err |-> ""]

GpIdle ==
    /\ gpPc = "idle"
    /\ gpArgs = <<>>
    /\ gpPatterns = <<>>
    /\ gpDriverFails = FALSE
    /\ gpI = 0
    /\ gpBuildPkgs = <<>>
    /\ gpFound = FALSE
    /\ gpResult = [pkgs |-> <<>>, err |-> ""]

GbIdle ==
    /\ gbPc = "idle"
    /\ gbPkgs = <<>>
    /\ gbPatterns = 0
    /\ gbIdx = 1
    /\ gbProcessedPkgDirs = {}
    /\ gbProcessedModDirs = {}
    /\ gbCommands = <<>>
    /\ gbSetup = "pending"
    /\ gbBuilt = 0
    /\ gbResult = ""
    /\ gbLog = <<>>
    /\ gbRuntimeFiles = {}
    /\ gbBackup = {}
    /\ gbDirty = {}
    /\ gbCleanupFailed = {}

MdIdle ==
    /\ mdPc = "idle"
    /\ mdDeps = <<>>
    /\ mdNext = 1
    /\ mdTask = <<>>
    /\ mdLocal = <<>>
    /\ mdMatched = <<>>
    /\ mdMu = 0
    /\ mdErr = ""
    /\ mdCancelled = FALSE
    /\ mdPending = {}
    /\ mdResult = [returned |-> FALSE, list |-> <<>>, err |-> ""]

SdIdle ==
    /\ sdPc = "idle"
    /\ sdRules = <<>>
    /\ sdManifest = <<>>
    /\ sdManifest0 = <<>>
    /\ sdModfile = <<>>
    /\ sdVendor = FALSE
    /\ sdMissing = {}
    /\ sdCopyFails = {}
    /\ sdIdx = 1
    /\ sdChanged = FALSE
    /\ sdAdded = {}
    /\ sdWrote = FALSE
    /\ sdCommands = <<>>
    /\ sdToCopy = {}
    /\ sdVisited = <<>>
    /\ sdCopied = {}
    /\ sdRuns = 0
    /\ sdErr = ""

FvIdle ==
    /\ fvPc = "idle"
    /\ fvSources = <<>>
    /\ fvVersion = <<>>

CoIdle ==
    /\ coPc = "idle"
    /\ coLog = <<>>
    /\ coLine = 1
    /\ coCurrentDir = <<>>
    /\ coMap = {}

MfIdle ==
    /\ mfMatched = <<>>
    /\ mfAmbient = <<>>
    /\ mfExported = FALSE

FfIdle ==
    /\ ffPc = "idle"
    /\ ffCmd = <<>>
    /\ ffFlag = <<>>
    /\ ffValue = <<>>

LateIdle == BtIdle /\ CgIdle /\ RmIdle /\ LdIdle /\ GpIdle /\ GbIdle /\ MdIdle /\ SdIdle /\ FvIdle /\ CoIdle /\ MfIdle /\ FfIdle

\* runMatch filters one rule by the dependency's version.
MatchVersion ==
    /\ mvPc = "idle"
    /\ \E d \in DepVersions, r \in RuleVersions :
          /\ mvDepVersion' = d
          /\ mvRuleVersion' = r
          /\ mvResult' = matchVersion(d, r)
    /\ mvPc' = "done"
    /\ UNCHANGED <<windows, splitVars, adVars, shVars, lateVars>>

InitVersion ==
    /\ windows = FALSE
    /\ SplitIdle
    /\ MvIdle
    /\ AdIdle
    /\ ShIdle
    /\ LateIdle

NextVersion == MatchVersion

SpecVersion == InitVersion /\ [][NextVersion]_vars

\* One call of addDeps with the project's matched rule sets.
AddDeps ==
    /\ adRuns < MaxRuns
    /\ \E matched \in MatchedLists(adRuleSets) :
          LET rules == CollectFuncRules(matched)
          IN  IF Len(rules) = 0
              THEN UNCHANGED <<requiredImports, otelRuntime, adChanged>>
              ELSE /\ requiredImports' = ImportsAfter(requiredImports, rules)
                   /\ \E order \in MapOrders(DOMAIN requiredImports') :
                         otelRuntime' = genImportDecl(requiredImports', order)
                                           \o genVarDecl(rules)
                                           \o genHookLinkNames(rules)
                   /\ adChanged' = (adChanged \/ (otelRuntime # NoFile /\ otelRuntime' # otelRuntime))
    /\ adRuns' = adRuns + 1
    /\ UNCHANGED <<adRuleSets, windows, splitVars, mvVars, shVars, lateVars>>

\* The next setup run is a new process: the package-level map starts afresh.
NewSetupProcess ==
    /\ adRuns > 0
    /\ requiredImports # InitialImports
    /\ requiredImports' = InitialImports
    /\ UNCHANGED <<adRuleSets, otelRuntime, adRuns, adChanged, windows, splitVars, mvVars, shVars, lateVars>>

InitDeps ==
    /\ windows = FALSE
    /\ SplitIdle
    /\ MvIdle
    /\ ShIdle
    /\ LateIdle
    /\ adRuleSets \in [ModulePaths -> UNION {[1..n -> FuncRules] : n \in 0..MaxFuncRules}]
    /\ requiredImports = InitialImports
    /\ otelRuntime = NoFile
    /\ adRuns = 0
    /\ adChanged = FALSE

NextDeps == AddDeps \/ NewSetupProcess

SpecDeps == InitDeps /\ [][NextDeps]_vars

(***************************************************************************)
(* The inputs of the splitter                                              *)
(***************************************************************************)
MaxLineLen == 5
MaxArgs == 2
MaxArgLen == 2

LineAlphabet == {"a", SP, QUOTE, TAB, BSLASH}
ArgAlphabet == {"a", SP, QUOTE, BSLASH}

\* The line `a "b c" d` and the tokens it stands for.
QuotedLine == <<"a", SP, QUOTE, "b", SP, "c", QUOTE, SP, "d">>
QuotedLineTokens == << <<"a">>, <<"b", SP, "c">>, <<"d">> >>

Lines == StringsUpTo(LineAlphabet, MaxLineLen) \cup {QuotedLine}

ArgElems == StringsUpTo(ArgAlphabet, MaxArgLen)
ArgLists == UNION {[1..n -> ArgElems] : n \in 0..MaxArgs}

\* A caller splits a line of the build-plan log.
SplitLine ==
    /\ splitPc = "idle"
    /\ \E line \in Lines :
          /\ splitInput' = line
          /\ splitJoined' = FALSE
          /\ splitArgv' = <<>>
          /\ splitOut' = SplitCompileCmds(line, windows)
    /\ splitPc' = "done"
    /\ UNCHANGED <<windows, mvVars, adVars, shVars, lateVars>>

\* A caller joins an argument list with single spaces and splits it again.
SplitJoined ==
    /\ splitPc = "idle"
    /\ \E A \in ArgLists :
          /\ splitInput' = Join(A, <<SP>>)
          /\ splitJoined' = TRUE
          /\ splitArgv' = A
          /\ splitOut' = SplitCompileCmds(Join(A, <<SP>>), windows)
    /\ splitPc' = "done"
    /\ UNCHANGED <<windows, mvVars, adVars, shVars, lateVars>>

InitSplit ==
    /\ windows \in BOOLEAN
    /\ SplitIdle
    /\ MvIdle
    /\ AdIdle
    /\ ShIdle
    /\ LateIdle

NextSplit == SplitLine \/ SplitJoined

SpecSplit == InitSplit /\ [][NextSplit]_vars

(***************************************************************************)
(* The compile shim: Toolexec                                              *)
(***************************************************************************)
\* util.RunCmd(args): the sub-tool is executed with args and Toolexec returns.
RunCmd(args) ==
    /\ shExecuted' = args
    /\ shPc' = "done"
    /\ shErr' = ""

\* Toolexec returns err, or the process dies of a panic or a failed assertion,
\* before any command is executed.
Fail(err) ==
    /\ shPc' = "failed"
    /\ shErr' = err
    /\ UNCHANGED shExecuted

\* Toolexec up to the call of interceptCompile: the two fast paths.
ToolexecStart ==
    /\ shPc = "start"
    /\ LET cmdLine == Join(shArgs, <<SP>>)
       IN  IF ~IsCompileCommand(cmdLine, windows)
           THEN RunCmd(shArgs)
           ELSE LET importPath == FindFlagValue(shArgs, FlagP)
                IN  IF importPath = IndexOutOfRange
                    THEN Fail("panic: index out of range")
                    ELSE IF importPath # <<>> /\ ~IsModuleMatched(importPath, shEnv)
                         THEN RunCmd(shArgs)
                         ELSE /\ shPc' = "intercept"
                              /\ UNCHANGED <<shExecuted, shErr>>
    /\ UNCHANGED <<shArgs, shEnv, shAllSet, shMatched, shCompileArgs, shFileRuleIdx, shPending,
                   shFile, shRules, shHasFuncRule, shApplied, shLoaded, shWritten>>
    /\ UNCHANGED <<windows, splitVars, mvVars, adVars, lateVars>>

\* An instrument that goes to the source files at once.
FirstLoopSkippingFileRules(rset) == "files"

\* instrument starts with the loop over rset.FileRules, and goes on to the
\* range over groupRules(rset) when that loop has nothing (left) to do.
FirstLoop(rset) == IF rset.fileRules = <<>> THEN "files" ELSE "fileRules"

\* interceptCompile up to the call of instrument: the -o assertion, load and
\* match; a package without rules is compiled as it is.
InterceptCompile ==
    /\ shPc = "intercept"
    /\ LET target == FindFlagValue(shArgs, FlagO)
       IN  IF target = IndexOutOfRange
           THEN /\ Fail("panic: index out of range")
                /\ UNCHANGED <<shAllSet, shMatched, shCompileArgs, shLoaded>>
           ELSE IF target = <<>>
           THEN /\ Fail("missing -o flag value")
                /\ UNCHANGED <<shAllSet, shMatched, shCompileArgs, shLoaded>>
           ELSE
             /\ shCompileArgs' = shArgs
             /\ \E disk \in DiskContents :
                  LET loaded == load(disk)
                      importPath == FindFlagValue(shArgs, FlagP)
                      matched == match(loaded.sets, importPath)
                  IN  /\ shLoaded' = (disk.state # "missing")
                      /\ IF loaded.err # ""
                         THEN /\ Fail(loaded.err)
                              /\ UNCHANGED <<shAllSet, shMatched>>
                         ELSE /\ shAllSet' = loaded.sets
                              /\ IF importPath = IndexOutOfRange
                                 THEN /\ Fail("panic: index out of range")
                                      /\ UNCHANGED shMatched
                                 ELSE IF importPath = <<>>
                                 THEN /\ Fail("sanity check")
                                      /\ UNCHANGED shMatched
                                 ELSE /\ shMatched' = matched
                                      /\ IF IsEmpty(matched)
                                         THEN RunCmd(shArgs)
                                         ELSE /\ shPc' = FirstLoop(matched)
                                              /\ UNCHANGED <<shExecuted, shErr>>
    /\ shFileRuleIdx' = 1
    /\ shPending' = IF shPc' \in {"files", "fileRules"} THEN DOMAIN groupRules(shMatched') ELSE {}
    /\ shHasFuncRule' = FALSE
    /\ UNCHANGED <<shArgs, shEnv, shFile, shRules, shApplied, shWritten>>
    /\ UNCHANGED <<windows, splitVars, mvVars, adVars, lateVars>>

\* instrument, first loop: one file rule.
ApplyFileRule ==
    /\ shPc = "fileRules"
    /\ LET rule == shMatched.fileRules[shFileRuleIdx]
           err == applyFileRule(rule)
       IN  IF err # ""
           THEN /\ Fail(err)
                /\ UNCHANGED <<shFileRuleIdx, shApplied, shWritten>>
           ELSE /\ shWritten' = shWritten \cup {AddedFile(rule)}
                /\ shApplied' = Append(shApplied, [file |-> <<>>, rule |-> rule])
                /\ shFileRuleIdx' = shFileRuleIdx + 1
                /\ shPc' = IF shFileRuleIdx = Len(shMatched.fileRules) THEN "files" ELSE "fileRules"
                /\ UNCHANGED <<shExecuted, shErr>>
    /\ UNCHANGED <<shArgs, shEnv, shAllSet, shMatched, shCompileArgs, shPending,
                   shFile, shRules, shHasFuncRule, shLoaded>>
    /\ UNCHANGED <<windows, splitVars, mvVars, adVars, lateVars>>

\* instrument, second loop: the range over groupRules(rset) yields the next
\* file (in any order); its rules are filtered by the quick check, and the
\* file is parsed unless no rule is left.
NextFile ==
    /\ shPc = "files"
    /\ \E file \in shPending :
          LET filteredRules == filterRulesWithQuickCheck(file, groupRules(shMatched)[file])
          IN  /\ shPending' = shPending \ {file}
              /\ IF Len(filteredRules) = 0
                 THEN UNCHANGED <<shPc, shFile, shRules>>
                 ELSE /\ shPc' = "rules"
                      /\ shFile' = file
                      /\ shRules' = filteredRules
    /\ UNCHANGED <<shArgs, shEnv, shAllSet, shMatched, shCompileArgs, shFileRuleIdx,
                   shHasFuncRule, shApplied, shLoaded, shWritten, shExecuted, shErr>>
    /\ UNCHANGED <<windows, splitVars, mvVars, adVars, lateVars>>

\* instrument, the type switch: one rule applied to the parsed file.
ApplyRule ==
    /\ shPc = "rules"
    /\ shRules # <<>>
    /\ LET rule == Head(shRules)
           err == IF rule.kind = "func" THEN applyFuncRule(rule, shFile)
                  ELSE IF rule.kind = "struct" THEN applyStructRule(rule, shFile)
                  ELSE applyRawRule(rule, shFile)
       IN  IF err # ""
           THEN /\ Fail(err)
                /\ UNCHANGED <<shRules, shHasFuncRule, shApplied>>
           ELSE /\ shRules' = Tail(shRules)
                /\ shHasFuncRule' = (shHasFuncRule \/ SetsHasFuncRule(rule.kind))
                /\ shApplied' = Append(shApplied, [file |-> shFile, rule |-> rule])
                /\ UNCHANGED <<shPc, shExecuted, shErr>>
    /\ UNCHANGED <<shArgs, shEnv, shAllSet, shMatched, shCompileArgs, shFileRuleIdx, shPending,
                   shFile, shLoaded, shWritten>>
    /\ UNCHANGED <<windows, splitVars, mvVars, adVars, lateVars>>

\* instrument, end of the loop body: optimizeTJumps and writeInstrumented.
WriteInstrumented ==
    /\ shPc = "rules"
    /\ shRules = <<>>
    /\ shWritten' = shWritten \cup {Rewritten(shFile)}
    /\ shCompileArgs' = SubstitutePath(shCompileArgs, shFile)
    /\ shPc' = "files"
    /\ UNCHANGED <<shArgs, shEnv, shAllSet, shMatched, shFileRuleIdx, shPending, shFile, shRules,
                   shHasFuncRule, shApplied, shLoaded, shExecuted, shErr>>
    /\ UNCHANGED <<windows, splitVars, mvVars, adVars, lateVars>>

\* instrument returns: writeGlobals if hasFuncRule; interceptCompile strips
\* -complete and Toolexec runs the modified command.
FinishInstrument ==
    /\ shPc = "files"
    /\ shPending = {}
    /\ shWritten' = IF shHasFuncRule THEN shWritten \cup {GlobalsFile} ELSE shWritten
    /\ shCompileArgs' = stripCompleteFlag(shCompileArgs)
    /\ RunCmd(shCompileArgs')
    /\ UNCHANGED <<shArgs, shEnv, shAllSet, shMatched, shFileRuleIdx, shPending, shFile, shRules,
                   shHasFuncRule, shApplied, shLoaded>>
    /\ UNCHANGED <<windows, splitVars, mvVars, adVars, lateVars>>

InitToolexec ==
    /\ windows \in BOOLEAN
    /\ SplitIdle
    /\ MvIdle
    /\ AdIdle
    /\ LateIdle
    /\ shArgs \in CommandLines
    /\ shEnv \in Environments
    /\ shPc = "start"
    /\ shAllSet = <<>>
    /\ shMatched = NoRuleSet
    /\ shCompileArgs = <<>>
    /\ shFileRuleIdx = 1
    /\ shPending = {}
    /\ shFile = <<>>
    /\ shRules = <<>>
    /\ shHasFuncRule = FALSE
    /\ shApplied = <<>>
    /\ shLoaded = FALSE
    /\ shWritten = {}
    /\ shExecuted = <<>>
    /\ shErr = ""

NextToolexec ==
    \/ ToolexecStart
    \/ InterceptCompile
    \/ ApplyFileRule
    \/ NextFile
    \/ ApplyRule
    \/ WriteInstrumented
    \/ FinishInstrument

SpecToolexec == InitToolexec /\ [][NextToolexec]_vars

(***************************************************************************)
(* The splitter's claims                                                   *)
(***************************************************************************)
\* The number of double quotes of s before position i.
QuotesBefore(s, i) == Cardinality({j \in 1..(i - 1) : s[j] = QUOTE})

\* Position i of s separates tokens: one of the separator characters, outside
\* double quotes.
IsSeparator(s, i, seps) == s[i] \in seps /\ QuotesBefore(s, i) % 2 = 0

\* The positions where a maximal run of non-separators starts, and where the
\* run that starts at i ends.
RunStarts(s, seps) ==
    {i \in 1..Len(s) : ~IsSeparator(s, i, seps) /\ (i = 1 \/ IsSeparator(s, i - 1, seps))}

RunEnd(s, i, seps) ==
    CHOOSE j \in i..Len(s) :
        /\ \A k \in i..j : ~IsSeparator(s, k, seps)
        /\ (j = Len(s) \/ IsSeparator(s, j + 1, seps))

NotQuote(c) == c # QUOTE
NonEmpty(t) == Len(t) > 0

RECURSIVE Ascending(_)
Ascending(S) ==
    IF S = {} THEN <<>>
    ELSE LET m == CHOOSE x \in S : \A y \in S : x <= y
         IN  <<m>> \o Ascending(S \ {m})

\* The tokens of s when it is cut at the separators outside double quotes and
\* nowhere else: each maximal run, its quotes removed, empty results dropped.
TokensCutAt(s, seps) ==
    LET starts == Ascending(RunStarts(s, seps))
        runs == [k \in 1..Len(starts) |->
                    SelectSeq(SubSeq(s, starts[k], RunEnd(s, starts[k], seps)), NotQuote)]
    IN  SelectSeq(runs, NonEmpty)

HasChar(t, c) == \E i \in 1..Len(t) : t[i] = c

\* C9 as stated: for every argument list A whose elements hold no double
\* quote, SplitCompileCmds(Join(A, " ")) is exactly A.
C9_RoundTripAsStated ==
    (splitPc = "done" /\ splitJoined
        /\ \A k \in 1..Len(splitArgv) : ~HasChar(splitArgv[k], QUOTE))
    => splitOut = splitArgv

\* C9: for every argument list A whose elements are non-empty and hold no
\* double quote and no space (and, on Windows, no doubled backslash),
\* SplitCompileCmds(Join(A, " ")) is exactly A: same elements, order and count.
C9_RoundTrip ==
    (splitPc = "done" /\ splitJoined
        /\ \A k \in 1..Len(splitArgv) :
              /\ Len(splitArgv[k]) > 0
              /\ ~HasChar(splitArgv[k], QUOTE)
              /\ ~HasChar(splitArgv[k], SP)
              /\ (windows => ~Contains(splitArgv[k], <<BSLASH, BSLASH>>)))
    => splitOut = splitArgv

\* A two-element argument list with a backslash in it came back unchanged.
C9_Witness ==
    /\ splitPc = "done"
    /\ splitJoined
    /\ splitArgv = << <<"a", BSLASH>>, <<"a">> >>
    /\ splitOut = splitArgv

\* C10 as stated: tokens are separated at whitespace (space or tab) outside
\* double quotes and nowhere else.
C10_SplitAtWhitespaceAsStated ==
    (splitPc = "done" /\ ~splitJoined)
    => splitOut = FixBackslashes(TokensCutAt(splitInput, {SP, TAB}), windows)

\* C10: tokens are separated at the space characters outside double quotes
\* and nowhere else (a tab separates nothing); a double-quoted region, its
\* quotes removed, stays inside one token, a token left empty is dropped, and
\* `a "b c" d` yields ["a", "b c", "d"].
C10_SplitAtSpaces ==
    (splitPc = "done" /\ ~splitJoined)
    => /\ splitOut = FixBackslashes(TokensCutAt(splitInput, {SP}), windows)
       /\ (splitInput = QuotedLine => splitOut = QuotedLineTokens)

\* The line `a "b c" d` was split and its quoted region is one token.
C10_Witness ==
    /\ splitPc = "done"
    /\ splitInput = QuotedLine
    /\ Len(splitOut) = 3
    /\ splitOut[2] = <<"b", SP, "c">>

(***************************************************************************)
(* The version matcher's claim                                             *)
(***************************************************************************)
\* The place of a version in semantic-version order: major, minor, patch,
\* then a prerelease below its release; build metadata has no part in it, and
\* a string that is no version is below every version.
Precedence(v) ==
    IF ~(Len(v) = 1 /\ v[1].kind = "version") THEN -1
    ELSE LET base == MaxNum + 2
             slots == Cardinality(PreReleases) + 1
             lit == v[1]
         IN  (((lit.major * base) + lit.minor) * base + lit.patch) * slots
                + (IF lit.pre = 0 THEN slots - 1 ELSE lit.pre - 1)

\* C4: matchVersion(d, r) is true exactly when r.version is empty, or is a
\* single version lo with d.version >= lo, or is "lo,hi" with
\* lo <= d.version < hi, in semantic-version order (a prerelease below its
\* release, build metadata ignored, a missing version below every version).
C4_MatchVersion ==
    mvPc = "done" =>
        (mvResult <=>
            \/ mvRuleVersion = <<>>
            \/ /\ Len(mvRuleVersion) = 1
               /\ Precedence(mvDepVersion) >= Precedence(mvRuleVersion)
            \/ /\ Len(mvRuleVersion) = 3
               /\ Precedence(<<mvRuleVersion[1]>>) <= Precedence(mvDepVersion)
               /\ Precedence(mvDepVersion) < Precedence(<<mvRuleVersion[3]>>))

\* A dependency exactly at the upper end of a range, above its lower end, was
\* matched against the range and rejected.
C4_Witness ==
    /\ mvPc = "done"
    /\ Len(mvRuleVersion) = 3
    /\ Len(mvDepVersion) = 1
    /\ mvDepVersion[1] = mvRuleVersion[3]
    /\ Precedence(<<mvRuleVersion[1]>>) < Precedence(mvDepVersion)
    /\ ~mvResult

(***************************************************************************)
(* The linker-file generator's claims                                      *)
(***************************************************************************)
\* The (hook_path, hook name) pairs the matched function rules use as a
\* before or an after hook.
HookPairsOf(rule) == {<<rule.path, h>> : h \in {rule.before, rule.after} \ {""}}

UsedHookPairs ==
    UNION {UNION {HookPairsOf(adRuleSets[mp][i]) : i \in 1..Len(adRuleSets[mp])} :
             mp \in ModulePaths}

\* The body-less function declarations of the file linked to the pair.
AliasesOf(file, pair) ==
    {i \in 1..Len(file) : file[i].kind = "func" /\ file[i].link = pair}

\* C7: for every distinct (hook_path, hook name) pair the matched function
\* rules use, otel.runtime.go holds exactly one function declaration linked
\* to hook_path.hook_name, also when two hook modules share a hook name.
C7_OneAliasPerHookPair ==
    otelRuntime # NoFile =>
        \A pair \in UsedHookPairs : Cardinality(AliasesOf(otelRuntime, pair)) = 1

\* C8: once otel.runtime.go is written, every further run of addDeps with the
\* same matched rule sets leaves its content as it is.
C8_AddDepsIdempotent == ~adChanged

(***************************************************************************)
(* The compile shim's claims                                               *)
(***************************************************************************)
Terminated == shPc \in {"done", "failed"}

\* The tokens of an argument list.
TokensOf(args) == {args[k] : k \in 1..Len(args)}

\* The arguments form a compile command: some argument holds each of -o, -p,
\* -buildid and the compiler's name, and none holds -pgoprofile.
LooksLikeCompile(args, isWindows) ==
    /\ \A marker \in {FlagO, FlagP, FlagBuildid} : \E t \in TokensOf(args) : Contains(t, marker)
    /\ \E t \in TokensOf(args) : Contains(t, IF isWindows THEN ToolCompileExe ELSE ToolCompile)
    /\ \A t \in TokensOf(args) : ~Contains(t, FlagPgoprofile)

\* The argument list carries -p followed by an import path.
HasImportPath(args) == \E k \in 1..(Len(args) - 1) : args[k] = FlagP

\* The import path: the argument that follows the first -p.
ImportPathOf(args) ==
    args[1 + CHOOSE k \in 1..(Len(args) - 1) :
                 args[k] = FlagP /\ \A j \in 1..(k - 1) : args[j] # FlagP]

\* path is one of the comma-separated entries of value.
IsEntry(value, path) ==
    \E i \in 1..(Len(value) + 1) :
        LET j == i + Len(path)
        IN  /\ j <= Len(value) + 1
            /\ SubSeq(value, i, j - 1) = path
            /\ (i = 1 \/ value[i - 1] = COMMA)
            /\ (j = Len(value) + 1 \/ value[j] = COMMA)

\* C1: a compile command whose -p import path is not one of the entries of
\* a set OTEL_MATCHED_MODULES is executed with exactly the argv received,
\* without matched.json being loaded and without any file being written.
C1_FastPathAsStated ==
    (/\ Terminated
     /\ LooksLikeCompile(shArgs, windows)
     /\ HasImportPath(shArgs)
     /\ shEnv.set
     /\ ~IsEntry(shEnv.value, ImportPathOf(shArgs)))
    => (shPc = "done" /\ shExecuted = shArgs /\ ~shLoaded /\ shWritten = {})

\* C2: arguments that do not form a compile command are executed exactly as
\* received; matched.json is not read and no state is changed before.
C2_NonCompilePassThrough ==
    (shPc # "start" /\ ~LooksLikeCompile(shArgs, windows))
    => /\ shPc = "done"
       /\ shExecuted = shArgs
       /\ shErr = ""
       /\ ~shLoaded
       /\ shWritten = {}
       /\ shCompileArgs = <<>>
       /\ shApplied = <<>>
       /\ shAllSet = <<>>

C2_Witness ==
    /\ shPc = "done"
    /\ shArgs[1] = ToolLink
    /\ FlagO \in TokensOf(shArgs)
    /\ shExecuted = shArgs

\* The compilation was instrumented: match returned a rule set with rules.
Instrumented == ~IsEmpty(shMatched)

\* args with every rewritten path replaced by the source path it stands for.
RestorePaths(args) ==
    [k \in 1..Len(args) |->
        IF \E f \in SourceFiles : args[k] = Rewritten(f)
        THEN CHOOSE f \in SourceFiles : args[k] = Rewritten(f)
        ELSE args[k]]

NotComplete(token) == token # FlagComplete
WithoutComplete(args) == SelectSeq(args, NotComplete)

\* C3: the executed argv is the received one, except that on instrumented
\* compilations it holds no -complete and the rewritten paths of the files
\* written stand for their sources; every other argument is forwarded in its
\* order, and without a stored rule set for the import path the executed
\* argv is the received one.
C3_ArgvForwarded ==
    shPc = "done" =>
       /\ ~Instrumented => shExecuted = shArgs
       /\ Instrumented =>
             /\ FlagComplete \notin TokensOf(shExecuted)
             /\ RestorePaths(shExecuted) = WithoutComplete(shArgs)
             /\ \A f \in SourceFiles :
                   Rewritten(f) \in TokensOf(shExecuted) => Rewritten(f) \in shWritten
       /\ (\A i \in 1..Len(shAllSet) :
              ~HasImportPath(shArgs) \/ shAllSet[i].modulePath # ImportPathOf(shArgs))
          => shExecuted = shArgs

C3_Witness ==
    /\ shPc = "done"
    /\ Instrumented
    /\ FlagComplete \in TokensOf(shArgs)
    /\ Rewritten(FileA) \in TokensOf(shExecuted)
    /\ FileB \in TokensOf(shExecuted)
    /\ shExecuted # shArgs

\* The kinds of the rules applied so far.
AppliedKinds == {shApplied[k].rule.kind : k \in 1..Len(shApplied)}

OnlyStructAndFileRules(rset) ==
    \A f \in SourceFiles : rset.funcRules[f] = <<>> /\ rset.rawRules[f] = <<>>

\* C5: after a rule set has been processed successfully, otel.globals.go
\* exists iff a function rule or a raw rule was applied; a rule set of struct
\* and file rules only never produces it.
C5_GlobalsIffFuncOrRaw ==
    (shPc = "done" /\ Instrumented) =>
       /\ GlobalsFile \in shWritten <=> AppliedKinds \cap {"func", "raw"} # {}
       /\ OnlyStructAndFileRules(shMatched) => GlobalsFile \notin shWritten

C5_Witness ==
    /\ shPc = "done"
    /\ Instrumented
    /\ GlobalsFile \in shWritten
    /\ "raw" \in AppliedKinds
    /\ "func" \notin AppliedKinds

\* A function rule whose function passes the quick check on its file but has
\* no matching declaration there.
UnfoundFuncRules(rset) ==
    {r \in UNION {{rset.funcRules[f][k] : k \in 1..Len(rset.funcRules[f])} : f \in SourceFiles} :
        \E f \in SourceFiles :
            /\ \E k \in 1..Len(rset.funcRules[f]) : rset.funcRules[f][k] = r
            /\ r.target \in Mentions(f)
            /\ <<r.target, r.recv>> \notin FuncDecls(f)}

\* A file rule fails before any source file is looked at.
FileRuleFails(rset) ==
    \E k \in 1..Len(rset.fileRules) : rset.fileRules[k] = AddMissingFile

IsPgoCompile(args, isWindows) ==
    /\ \A marker \in {FlagO, FlagP, FlagBuildid} : \E t \in TokensOf(args) : Contains(t, marker)
    /\ \E t \in TokensOf(args) : Contains(t, IF isWindows THEN ToolCompileExe ELSE ToolCompile)
    /\ FlagPgoprofile \in TokensOf(args)

\* The environment lets the import path of args through to interceptCompile.
PassesModuleCheck(args, env) ==
    \/ ~HasImportPath(args)
    \/ ~env.set
    \/ env.value = <<>>
    \/ IsEntry(env.value, ImportPathOf(args))

\* C18 as stated: a command line with the four markers and -pgoprofile is
\* treated as a compile command: it is not passed through on the non-compile
\* fast path, so (its module being let through) it reaches interceptCompile,
\* which loads matched.json or fails.
C18_PgoTreatedAsCompileAsStated ==
    (Terminated /\ IsPgoCompile(shArgs, windows) /\ PassesModuleCheck(shArgs, shEnv))
    => (shLoaded \/ shPc = "failed")

\* C18: the shim uses the build-plan predicate with its -pgoprofile
\* exclusion: a command line with the four markers and -pgoprofile is not a
\* compile command for the shim and is executed unchanged on the non-compile
\* fast path, whatever the environment and matched.json hold.
C18_PgoPassedThrough ==
    (shPc # "start" /\ IsPgoCompile(shArgs, windows))
    => /\ shPc = "done"
       /\ shExecuted = shArgs
       /\ ~shLoaded
       /\ shMatched = NoRuleSet
       /\ shWritten = {}

C18_Witness ==
    /\ shPc = "done"
    /\ IsPgoCompile(shArgs, windows)
    /\ HasImportPath(shArgs)
    /\ PassesModuleCheck(shArgs, shEnv)
    /\ shExecuted = shArgs
    /\ ~shLoaded

\* The rules applied to file so far, in the order of their application.
AppliedTo(file) ==
    LET OnFile(entry) == entry.file = file
    IN  SelectSeq(shApplied, OnFile)

\* The rules of kind that instrument has to apply to file: those of the
\* matched rule set, without the function rules the quick check drops.
RulesToApply(file, kind) ==
    LET all == IF kind = "func" THEN shMatched.funcRules[file]
               ELSE IF kind = "struct" THEN shMatched.structRules[file]
               ELSE shMatched.rawRules[file]
        Kept(r) == r.kind # "func" \/ r.target \in Mentions(file)
    IN  SelectSeq(all, Kept)

\* On every file, a rule of kind later is applied only when all the file's
\* rules of kind earlier have been applied before it.
AppliedInKindOrder(earlier, later) ==
    \A file \in SourceFiles :
        LET applied == AppliedTo(file)
        IN  \A k \in 1..Len(applied) :
                applied[k].rule.kind = later =>
                    \A i \in 1..Len(RulesToApply(file, earlier)) :
                        \E j \in 1..(k - 1) : applied[j].rule = RulesToApply(file, earlier)[i]

\* C19: within a source file, all its struct rules are applied before any
\* function or raw rule, and all its function rules before any raw rule.
C19_StructFuncRaw ==
    /\ AppliedInKindOrder("struct", "func")
    /\ AppliedInKindOrder("struct", "raw")
    /\ AppliedInKindOrder("func", "raw")

\* A source file has been parsed, a struct, function or raw rule applied, or
\* a rewritten file or the globals file written.
SourceFilesTouched ==
    \/ shPc = "rules"
    \/ shFile # <<>>
    \/ AppliedKinds \cap {"func", "struct", "raw"} # {}
    \/ \E f \in SourceFiles : Rewritten(f) \in shWritten
    \/ GlobalsFile \in shWritten

\* C20: every file rule of the matched rule set has been applied (in the
\* rule set's order) before a source file is parsed or another rule applied;
\* when a file rule fails the shim fails, with the source files untouched and
\* no command executed.
C20_FileRulesFirst ==
    /\ SourceFilesTouched =>
          /\ Len(shApplied) >= Len(shMatched.fileRules)
          /\ \A k \in 1..Len(shMatched.fileRules) :
                shApplied[k] = [file |-> <<>>, rule |-> shMatched.fileRules[k]]
    /\ (Terminated /\ Instrumented /\ FileRuleFails(shMatched)) =>
          /\ shPc = "failed"
          /\ shErr = "failed to read embedded file"
          /\ ~SourceFilesTouched
          /\ shExecuted = <<>>

C20_Witness ==
    /\ shPc = "rules"
    /\ shMatched.fileRules = <<AddFile>>
    /\ shApplied = <<[file |-> <<>>, rule |-> AddFile]>>
    /\ AddedFile(AddFile) \in shWritten

(***************************************************************************)
(* util.GetBuildTarget                                                     *)
(***************************************************************************)
SLASH == "/"
DOT == <<".">>
DOTDOT == <<".", ".">>
WordGo == <<"g", "o">>
WordBuild == <<"b", "u", "i", "l", "d">>

\* flagsWithPathValues: the flags that take a directory or file path.
flagsWithPathValues == {<<"-", "o">>, <<"-", "m", "o", "d", "f", "i", "l", "e">>, <<"-", "o", "v", "e", "r", "l", "a", "y">>, <<"-", "p", "g", "o">>, <<"-", "p", "k", "g", "d", "i", "r">>}

\* strings.HasPrefix(s, prefix)
HasPrefix(s, prefix) == Len(s) >= Len(prefix) /\ SubSeq(s, 1, Len(prefix)) = prefix

\* path.Clean, element by element: empty and "." elements are dropped, a
\* ".." element removes the element before it, stays when nothing but ".."
\* elements are before it in a relative path, and is dropped at the root.
RECURSIVE CleanElements(_, _, _)
CleanElements(elems, rooted, out) ==
    IF elems = <<>> THEN out
    ELSE LET e == Head(elems)
             rest == Tail(elems)
         IN  IF e = <<>> \/ e = DOT THEN CleanElements(rest, rooted, out)
             ELSE IF e = DOTDOT
                  THEN IF out # <<>> /\ out[Len(out)] # DOTDOT
                       THEN CleanElements(rest, rooted, SubSeq(out, 1, Len(out) - 1))
                       ELSE IF rooted THEN CleanElements(rest, rooted, out)
                            ELSE CleanElements(rest, rooted, Append(out, e))
                  ELSE CleanElements(rest, rooted, Append(out, e))

Clean(path) ==
    IF path = <<>> THEN DOT
    ELSE LET rooted == path[1] = SLASH
             out == CleanElements(StringsSplit(path, SLASH), rooted, <<>>)
         IN  IF rooted THEN <<SLASH>> \o Join(out, <<SLASH>>)
             ELSE IF out = <<>> THEN DOT
             ELSE Join(out, <<SLASH>>)

\* A GetBuildTarget that does not look at the argument before.
RECURSIVE GetBuildTargetIgnoringFlagValues(_, _)
GetBuildTargetIgnoringFlagValues(goBuildCmd, i) ==
    IF i < 1 THEN <<>>
    ELSE LET arg == goBuildCmd[i]
         IN  IF HasPrefix(arg, <<"-">>) THEN <<>>
             ELSE IF arg = WordGo \/ arg = WordBuild
                  THEN GetBuildTargetIgnoringFlagValues(goBuildCmd, i - 1)
                  ELSE IF Clean(arg) # DOT THEN Clean(arg) ELSE <<>>

\* GetBuildTarget: the loop from the last argument down, at index i.
RECURSIVE GetBuildTargetFrom(_, _)
GetBuildTargetFrom(goBuildCmd, i) ==
    IF i < 1 THEN <<>>
    ELSE LET arg == goBuildCmd[i]
         IN  IF i > 1 /\ goBuildCmd[i - 1] \in flagsWithPathValues THEN <<>>
             ELSE IF HasPrefix(arg, <<"-">>) THEN <<>>
             ELSE IF arg = WordGo \/ arg = WordBuild
                  THEN GetBuildTargetFrom(goBuildCmd, i - 1)
                  ELSE IF Clean(arg) # DOT THEN Clean(arg) ELSE <<>>

GetBuildTarget(goBuildCmd) == GetBuildTargetFrom(goBuildCmd, Len(goBuildCmd))

\* The go build command lines: go build [build flags] [packages].
MaxBuildFlags == 2
MaxPackages == 2
BuildFlags ==
    {<<<<"-", "a">>>>, <<<<"-", "o">>, <<".", "/", "b", "i", "n", "/", "a", "p", "p">>>>, <<<<"-", "o">>, <<".", "/", "b", "i", "n", "/">>>>, <<<<"-", "t", "a", "g", "s">>, <<"f", "o", "o">>>>, <<<<"-", "p", "g", "o">>, <<"o", "f", "f">>>>}
Packages == {<<".">>, <<".", "/">>, <<"c", "m", "d", "/">>, <<".", "/", "c", "m", "d", "/", "a", "p", "p">>, <<".", ".", "/", "c", "m", "d">>, <<".", "/", "c", "m", "d", "/", ".", ".", "/", "a", "p", "p">>, <<"/", "c", "m", "d", "/", "/", "a", "p", "p", "/">>}

RECURSIVE Concat(_)
Concat(seqs) == IF seqs = <<>> THEN <<>> ELSE Head(seqs) \o Concat(Tail(seqs))

BuildCommands ==
    {<<WordGo, WordBuild>> \o Concat(flags) \o pkgs :
        flags \in UNION {[1..n -> BuildFlags] : n \in 0..MaxBuildFlags},
        pkgs \in UNION {[1..n -> Packages] : n \in 0..MaxPackages}}

BtOthers == <<windows, splitVars, mvVars, adVars, shVars, cgVars, rmVars, ldVars, gpVars, gbVars, mdVars, sdVars, fvVars, coVars, mfVars, ffVars>>

CallGetBuildTarget ==
    /\ btPc = "idle"
    /\ btTarget' = GetBuildTarget(btArgs)
    /\ btPc' = "done"
    /\ UNCHANGED <<btArgs, BtOthers>>

InitTarget ==
    /\ windows = FALSE
    /\ SplitIdle
    /\ MvIdle
    /\ AdIdle
    /\ ShIdle
    /\ FfIdle
    /\ MfIdle
    /\ CoIdle
    /\ FvIdle
    /\ SdIdle
    /\ MdIdle
    /\ GbIdle
    /\ GpIdle
    /\ LdIdle
    /\ RmIdle
    /\ CgIdle
    /\ btPc = "idle"
    /\ btArgs \in BuildCommands
    /\ btTarget = <<>>

NextTarget == CallGetBuildTarget

SpecTarget == InitTarget /\ [][NextTarget]_vars

\* The cleaned form of each path of the command lines.
CleanedForm(arg) ==
    CASE arg = <<".">> -> <<".">>
      [] arg = <<".", "/">> -> <<".">>
      [] arg = <<"c", "m", "d", "/">> -> <<"c", "m", "d">>
      [] arg = <<".", "/", "c", "m", "d", "/", "a", "p", "p">> -> <<"c", "m", "d", "/", "a", "p", "p">>
      [] arg = <<".", ".", "/", "c", "m", "d">> -> <<".", ".", "/", "c", "m", "d">>
      [] arg = <<".", "/", "c", "m", "d", "/", ".", ".", "/", "a", "p", "p">> -> <<"a", "p", "p">>
      [] arg = <<"/", "c", "m", "d", "/", "/", "a", "p", "p", "/">> -> <<"/", "c", "m", "d", "/", "a", "p", "p">>
      [] arg = <<".", "/", "b", "i", "n", "/", "a", "p", "p">> -> <<"b", "i", "n", "/", "a", "p", "p">>
      [] arg = <<".", "/", "b", "i", "n", "/">> -> <<"b", "i", "n">>
      [] OTHER -> arg

IsFlag(arg) == Len(arg) > 0 /\ arg[1] = "-"

\* The arguments after `go build` that are neither a flag nor the value that
\* follows a path-valued flag.
Positionals(cmd) ==
    {i \in 3..Len(cmd) : ~IsFlag(cmd[i]) /\ cmd[i - 1] \notin flagsWithPathValues}

Largest(S) == CHOOSE i \in S : \A j \in S : j <= i

TargetOf(arg) == IF CleanedForm(arg) = <<".">> THEN <<>> ELSE CleanedForm(arg)

cgoSuffix == <<".", "c", "g", "o", "1", ".", "g", "o">>
goSuffix == <<".", "g", "o">>

\* strings.HasSuffix and strings.TrimSuffix
HasSuffix(s, suffix) ==
    Len(s) >= Len(suffix) /\ SubSeq(s, Len(s) - Len(suffix) + 1, Len(s)) = suffix
TrimSuffix(s, suffix) == IF HasSuffix(s, suffix) THEN SubSeq(s, 1, Len(s) - Len(suffix)) ELSE s

\* filepath.Base: trailing separators are removed, then everything up to the
\* last separator; "." for the empty path, "/" for a path of separators.
RECURSIVE StripTrailingSlashes(_)
StripTrailingSlashes(path) ==
    IF Len(path) > 0 /\ path[Len(path)] = SLASH
    THEN StripTrailingSlashes(SubSeq(path, 1, Len(path) - 1))
    ELSE path

Base(path) ==
    IF path = <<>> THEN DOT
    ELSE LET stripped == StripTrailingSlashes(path)
             slashes == {i \in 1..Len(stripped) : stripped[i] = SLASH}
             from == IF slashes = {} THEN 1
                     ELSE 1 + CHOOSE i \in slashes : \A j \in slashes : j <= i
         IN  IF stripped = <<>> THEN <<SLASH>>
             ELSE SubSeq(stripped, from, Len(stripped))

\* filepath.Join(dir, name) for non-empty dir and name
FilepathJoin(dir, name) == Clean(dir \o <<SLASH>> \o name)

\* util.PathExists
PathExists(path, disk) == path \in disk

\* A ResolveCgoFile that does not look whether the file exists.
ResolveCgoFileUnchecked(cgoFile, sourceDir, disk) ==
    IF cgoFile = <<>> \/ sourceDir = <<>>
    THEN [path |-> <<>>, err |-> "cgoFile and sourceDir cannot be empty"]
    ELSE LET baseName == Base(cgoFile)
         IN  IF ~HasSuffix(baseName, cgoSuffix)
             THEN [path |-> <<>>, err |-> "not a CGO generated file"]
             ELSE [path |-> FilepathJoin(sourceDir, TrimSuffix(baseName, cgoSuffix) \o goSuffix),
                   err |-> ""]

\* util.ResolveCgoFile (and its copy resolveCgoFile of the setup package)
ResolveCgoFile(cgoFile, sourceDir, disk) ==
    IF cgoFile = <<>> \/ sourceDir = <<>>
    THEN [path |-> <<>>, err |-> "cgoFile and sourceDir cannot be empty"]
    ELSE LET baseName == Base(cgoFile)
         IN  IF ~HasSuffix(baseName, cgoSuffix)
             THEN [path |-> <<>>, err |-> "not a CGO generated file"]
             ELSE LET originalBase == TrimSuffix(baseName, cgoSuffix) \o goSuffix
                      abs == FilepathJoin(sourceDir, originalBase)
                  IN  IF ~PathExists(abs, disk)
                      THEN [path |-> <<>>, err |-> "file does not exist"]
                      ELSE [path |-> abs, err |-> ""]

\* The generated files of the compile commands, the source directories of
\* the CGO map and the files on disk.
CgoFiles ==
    {<<>>, <<"x", ".", "c", "g", "o", "1", ".", "g", "o">>, <<"/", "w", "/", "b", "/", "x", ".", "c", "g", "o", "1", ".", "g", "o">>, <<"/", "w", "/", "b", "/", "x", ".", "c", "g", "o", "1", ".", "g", "o", "/">>, <<"/", "w", "/", "b", "/", ".", "c", "g", "o", "1", ".", "g", "o">>,
     <<"/", "w", "/", "b", "/", "x", ".", "g", "o">>, <<"/", "w", "/", "b", "/", "x", ".", "c", "g", "o", "2", ".", "g", "o">>, <<"/", "w", "/", "x", ".", "c", "g", "o", "1", ".", "g", "o", "/", "_", "g", "o", "m", "o", "d", "_", ".", "g", "o">>, <<"/", "w", "/", "b", "/", "x", ".", "C", "G", "O", "1", ".", "g", "o">>}
SourceDirs == {<<>>, <<"/", "s">>, <<"/", "s", "/">>, <<"s">>}
DiskFiles == {<<"/", "s", "/", "x", ".", "g", "o">>, <<"s", "/", "x", ".", "g", "o">>, <<"/", "s", "/", ".", "g", "o">>, <<"/", "s", "/", "x", ".", "c", "g", "o", "1", ".", "g", "o">>}

CgOthers == <<windows, splitVars, mvVars, adVars, shVars, btVars, rmVars, ldVars, gpVars, gbVars, mdVars, sdVars, fvVars, coVars, mfVars, ffVars>>

CallResolveCgoFile ==
    /\ cgPc = "idle"
    /\ cgResult' = ResolveCgoFile(cgFile, cgSourceDir, cgDisk)
    /\ cgPc' = "done"
    /\ UNCHANGED <<cgFile, cgSourceDir, cgDisk, CgOthers>>

InitCgo ==
    /\ windows = FALSE
    /\ SplitIdle
    /\ MvIdle
    /\ AdIdle
    /\ ShIdle
    /\ FfIdle
    /\ MfIdle
    /\ CoIdle
    /\ FvIdle
    /\ SdIdle
    /\ MdIdle
    /\ GbIdle
    /\ GpIdle
    /\ LdIdle
    /\ RmIdle
    /\ BtIdle
    /\ cgPc = "idle"
    /\ cgFile \in CgoFiles
    /\ cgSourceDir \in SourceDirs
    /\ cgDisk \in SUBSET DiskFiles
    /\ cgResult = [path |-> <<>>, err |-> ""]

NextCgo == CallResolveCgoFile

SpecCgo == InitCgo /\ [][NextCgo]_vars

\* The name base for which the generated file's basename is base.cgo1.go
\* (NotCgo when it is not of that form).
NotCgo == <<"not a cgo file">>
CgoBase(cgoFile) ==
    CASE cgoFile \in {<<"x", ".", "c", "g", "o", "1", ".", "g", "o">>, <<"/", "w", "/", "b", "/", "x", ".", "c", "g", "o", "1", ".", "g", "o">>, <<"/", "w", "/", "b", "/", "x", ".", "c", "g", "o", "1", ".", "g", "o", "/">>} -> <<"x">>
      [] cgoFile = <<"/", "w", "/", "b", "/", ".", "c", "g", "o", "1", ".", "g", "o">> -> <<>>
      [] OTHER -> NotCgo

\* The file name.go in the directory dir.
InDir(dir, name) ==
    CASE dir \in {<<"/", "s">>, <<"/", "s", "/">>} -> <<"/", "s", "/">> \o name
      [] dir = <<"s">> -> <<"s", "/">> \o name

\* C12: ResolveCgoFile returns sourceDir/base.go when cgoFile's basename is
\* base.cgo1.go and that file exists, and an error without a path in every
\* other case.
C12_ResolveCgoFile ==
    cgPc = "done" =>
        IF /\ cgFile # <<>>
           /\ cgSourceDir # <<>>
           /\ CgoBase(cgFile) # NotCgo
           /\ InDir(cgSourceDir, CgoBase(cgFile) \o <<".", "g", "o">>) \in cgDisk
        THEN cgResult = [path |-> InDir(cgSourceDir, CgoBase(cgFile) \o <<".", "g", "o">>), err |-> ""]
        ELSE cgResult.path = <<>> /\ cgResult.err # ""

C12_Witness ==
    /\ cgPc = "done"
    /\ cgFile = <<"/", "w", "/", "b", "/", "x", ".", "c", "g", "o", "1", ".", "g", "o">>
    /\ cgSourceDir = <<"/", "s">>
    /\ cgResult = [path |-> <<"/", "s", "/", "x", ".", "g", "o">>, err |-> ""]

(***************************************************************************)
(* The matcher: runMatch                                                   *)
(***************************************************************************)
\* A rule of the catalog: the import path it targets, its version
\* constraint, and what it instruments.
CatalogRule(module, version, rule) == [module |-> module, version |-> version, rule |-> rule]

PathOther == <<"o", "t", "h", "e", "r">>
VersionOld == <<Literal(0, 1, 0, 0, 0)>>
VersionNew == <<Literal(1, 0, 0, 0, 0)>>

MaxCatalogRules == 2
CatalogRules ==
    {CatalogRule(PathMain, v, r) :
        v \in {<<>>, VersionNew},
        r \in {HookFunc, HookInvalidReceiver, AddField, AddRaw, AddFile}}
    \cup {CatalogRule(PathDep, <<>>, HookFunc2)}
\* matchDeps returns before any runMatch when no rule was loaded.
Catalogs == UNION {[1..n -> CatalogRules] : n \in 1..MaxCatalogRules}

\* The dependencies findDeps returns: the import path of a compile command,
\* the version found in its source paths, its sources; broken holds the
\* sources that do not parse.
Dependencies ==
    {[importPath |-> p, version |-> v, sources |-> s, broken |-> b] :
        p \in {PathMain, PathDep, PathOther},
        v \in {<<>>, VersionOld, VersionNew},
        s \in {<<>>, <<FileA>>, <<FileA, FileB>>, <<FileB, FileA>>},
        b \in SUBSET SourceFiles}

\* matchDeps: rulesByTarget, the rules indexed by r.GetTarget().
IndexByTarget(allRules) ==
    [t \in {allRules[k].module : k \in 1..Len(allRules)} |->
        LET Targets(r) == r.module = t IN SelectSeq(allRules, Targets)]

\* A lookup that returns the rules of every target.
RelevantRulesOfAnyTarget(rulesByTarget, importPath) ==
    LET all == UNION {{rulesByTarget[t][k] : k \in 1..Len(rulesByTarget[t])} : t \in DOMAIN rulesByTarget}
        RECURSIVE AsSeq(_)
        AsSeq(S) == IF S = {} THEN <<>> ELSE LET r == CHOOSE x \in S : TRUE IN <<r>> \o AsSeq(S \ {r})
    IN  AsSeq(all)

\* rulesByTarget[dep.ImportPath]: nil when the map has no such key.
RelevantRules(rulesByTarget, importPath) ==
    IF importPath \in DOMAIN rulesByTarget THEN rulesByTarget[importPath] ELSE <<>>

\* rule.NewInstRuleSet(importPath)
NewInstRuleSet(importPath) == RuleSet(importPath, NoRules, NoRules, NoRules, <<>>)

\* set.AddFuncRule, AddStructRule, AddRawRule, AddFileRule
AddFuncRule(set, source, r) ==
    [set EXCEPT !.funcRules = [@ EXCEPT ![source] = Append(@, r)]]
AddStructRule(set, source, r) ==
    [set EXCEPT !.structRules = [@ EXCEPT ![source] = Append(@, r)]]
AddRawRule(set, source, r) ==
    [set EXCEPT !.rawRules = [@ EXCEPT ![source] = Append(@, r)]]
AddFileRule(set, r) == [set EXCEPT !.fileRules = Append(@, r)]

\* ast.FindFuncDecl and ast.FindStructDecl on the parsed source.
FindFuncDecl(source, rule) == HasFuncDecl(source, rule)
FindStructDecl(source, rule) == rule.target \in DOMAIN StructFields(source)

\* runMatch, the version filter and the split into file rules (added to the
\* set at once) and rules that need precise matching.
RECURSIVE AddFileRules(_, _)
AddFileRules(set, rules) ==
    IF rules = <<>> THEN set
    ELSE IF Head(rules).rule.kind = "file"
         THEN AddFileRules(AddFileRule(set, Head(rules).rule), Tail(rules))
         ELSE AddFileRules(set, Tail(rules))

\* runMatch, the inner loop: the precise rules matched against one source.
RECURSIVE MatchPrecisely(_, _, _)
MatchPrecisely(set, source, rules) ==
    IF rules = <<>> THEN set
    ELSE LET r == Head(rules).rule
             next == IF r.kind = "func" /\ FindFuncDecl(source, r) THEN AddFuncRule(set, source, r)
                     ELSE IF r.kind = "struct" /\ FindStructDecl(source, r)
                          THEN AddStructRule(set, source, r)
                     ELSE IF r.kind = "raw" /\ FindFuncDecl(source, r) THEN AddRawRule(set, source, r)
                     ELSE set
         IN  MatchPrecisely(next, source, Tail(rules))

RmOthers == <<windows, splitVars, mvVars, adVars, shVars, btVars, cgVars, ldVars, gpVars, gbVars, mdVars, sdVars, fvVars, coVars, mfVars, ffVars>>

\* runMatch returns.
Return(pc, set, err) ==
    /\ rmPc' = pc
    /\ rmResult' = [set |-> set, err |-> err]

\* runMatch up to the loop over dep.Sources.
RunMatchStart ==
    /\ rmPc = "start"
    /\ LET set == NewInstRuleSet(rmDep.importPath)
           relevantRules == RelevantRules(IndexByTarget(rmAllRules), rmDep.importPath)
           Applicable(r) == matchVersion(rmDep.version, r.version)
           filteredRules == SelectSeq(relevantRules, Applicable)
           NotFileRule(r) == r.rule.kind # "file"
           preciseRules == SelectSeq(filteredRules, NotFileRule)
       IN  IF Len(relevantRules) = 0
           THEN /\ Return("done", set, "")
                /\ rmSet' = set
                /\ UNCHANGED rmPrecise
           ELSE /\ rmSet' = AddFileRules(set, filteredRules)
                /\ rmPrecise' = preciseRules
                /\ IF Len(preciseRules) = 0
                   THEN Return("done", rmSet', "")
                   ELSE rmPc' = "sources" /\ UNCHANGED rmResult
    /\ UNCHANGED <<rmAllRules, rmDep, rmIdx, rmPackage, rmParsed, RmOthers>>

\* runMatch, one iteration of the loop over dep.Sources: the source is
\* parsed and the precise rules are matched against it.
RunMatchSource ==
    /\ rmPc = "sources"
    /\ rmIdx <= Len(rmDep.sources)
    /\ LET source == rmDep.sources[rmIdx]
       IN  /\ rmParsed' = Append(rmParsed, source)
           /\ IF source \in rmDep.broken
              THEN /\ Return("failed", NoRuleSet, "failed to parse file")
                   /\ UNCHANGED <<rmSet, rmPackage, rmIdx>>
              ELSE /\ rmPackage' = "main"
                   /\ rmSet' = MatchPrecisely(rmSet, source, rmPrecise)
                   /\ rmIdx' = rmIdx + 1
                   /\ UNCHANGED <<rmPc, rmResult>>
    /\ UNCHANGED <<rmAllRules, rmDep, rmPrecise, RmOthers>>

\* runMatch after the loop: return set, nil.
RunMatchReturn ==
    /\ rmPc = "sources"
    /\ rmIdx > Len(rmDep.sources)
    /\ Return("done", rmSet, "")
    /\ UNCHANGED <<rmAllRules, rmDep, rmPrecise, rmIdx, rmSet, rmPackage, rmParsed, RmOthers>>

InitMatch ==
    /\ windows = FALSE
    /\ SplitIdle
    /\ MvIdle
    /\ AdIdle
    /\ ShIdle
    /\ FfIdle
    /\ MfIdle
    /\ CoIdle
    /\ FvIdle
    /\ SdIdle
    /\ MdIdle
    /\ GbIdle
    /\ GpIdle
    /\ LdIdle
    /\ BtIdle
    /\ CgIdle
    /\ rmPc = "start"
    /\ rmAllRules \in Catalogs
    /\ rmDep \in Dependencies
    /\ rmPrecise = <<>>
    /\ rmIdx = 1
    /\ rmSet = NoRuleSet
    /\ rmPackage = ""
    /\ rmParsed = <<>>
    /\ rmResult = [set |-> NoRuleSet, err |-> ""]

NextMatch == RunMatchStart \/ RunMatchSource \/ RunMatchReturn

SpecMatch == InitMatch /\ [][NextMatch]_vars

\* No loaded rule targets the dependency's import path.
NoRuleTargetsDep ==
    \A k \in 1..Len(rmAllRules) : rmAllRules[k].module # rmDep.importPath

\* C13: for a dependency that no loaded rule targets, runMatch returns an
\* empty rule set (for the dependency's import path) and no error, and has
\* parsed none of its sources.
C13_UntargetedDependency ==
    (rmPc # "start" /\ NoRuleTargetsDep)
    => /\ rmPc = "done"
       /\ ~rmResult.set.isNil
       /\ IsEmpty(rmResult.set)
       /\ rmResult.set.modulePath = rmDep.importPath
       /\ rmResult.err = ""
       /\ rmParsed = <<>>

C13_Witness ==
    /\ rmPc = "done"
    /\ rmDep.importPath = PathOther
    /\ rmDep.sources = <<FileA, FileB>>
    /\ rmDep.broken = {FileA}
    /\ Len(rmAllRules) = 2
    /\ rmResult = [set |-> NewInstRuleSet(PathOther), err |-> ""]
    /\ rmParsed = <<>>

(***************************************************************************)
(* The rule catalog: LoadAllRules                                          *)
(***************************************************************************)
\* The value of a key in a declaration's field map: no such key (nil), a
\* string, or a value of another type (a list).
Absent == "absent"
Scalar == "scalar"
NotAString == "list"

\* A rule declaration as written in an embedded file: its name and its
\* fields.
Declaration(name, func, struct, raw, file, version) ==
    [name |-> name, func |-> func, struct |-> struct, raw |-> raw, file |-> file,
     target |-> PathMain, version |-> version]

RuleNames == {"a", "b"}
Declarations ==
    UNION {{Declaration(n, Scalar, Absent, Absent, Absent, Absent),
            Declaration(n, Absent, Scalar, Absent, Absent, Absent),
            Declaration(n, Scalar, Absent, Scalar, Absent, Absent),
            Declaration(n, Absent, Absent, Absent, Scalar, Absent),
            Declaration(n, Absent, Scalar, Absent, Scalar, Absent),
            Declaration(n, Absent, Absent, Absent, Absent, Absent),
            Declaration(n, Absent, NotAString, Absent, Absent, Absent),
            Declaration(n, Scalar, Absent, Absent, Absent, NotAString)} : n \in RuleNames}

MaxDeclarations == 2
MaxFiles == 2
EmbedFiles == UNION {[1..n -> Declarations] : n \in 0..MaxDeclarations}
Availables == UNION {[1..n -> EmbedFiles] : n \in 0..MaxFiles}

\* The rule CreateRuleFromFields builds: base.Name, base.Target,
\* base.Version and the variant.
InstRule(kind, fields) ==
    [name |-> fields.name, target |-> fields.target, version |-> fields.version, kind |-> kind]
NoInstRule == [name |-> "", target |-> <<>>, version |-> Absent, kind |-> "nil"]

\* yaml.Unmarshal(raw, &r): fails when a key of r's type holds a value that
\* is not a string.
UnmarshalFails(kind, fields) ==
    \/ kind = "struct" /\ fields.struct = NotAString
    \/ kind = "file" /\ fields.file = NotAString
    \/ kind = "raw" /\ (fields.raw = NotAString \/ fields.func = NotAString)
    \/ kind = "func" /\ fields.func = NotAString

\* CreateRuleFromFields: [rule, outcome], outcome "ok", "err" (an error is
\* returned) or "panic" (util.Assert or util.ShouldNotReachHere).
CreateRuleFromFields(fields) ==
    LET kind == IF fields.struct # Absent THEN "struct"
                ELSE IF fields.file # Absent THEN "file"
                ELSE IF fields.raw # Absent THEN "raw"
                ELSE IF fields.func # Absent THEN "func"
                ELSE "none"
    IN  IF fields.version = NotAString THEN [rule |-> NoInstRule, outcome |-> "panic"]
        ELSE IF kind = "none" THEN [rule |-> NoInstRule, outcome |-> "panic"]
        ELSE IF UnmarshalFails(kind, fields) THEN [rule |-> NoInstRule, outcome |-> "err"]
        ELSE [rule |-> InstRule(kind, fields), outcome |-> "ok"]

\* yaml.Unmarshal(yamlFile, &h): a mapping with a repeated key is an error.
HasRepeatedKey(yamlFile) ==
    \E i, j \in 1..Len(yamlFile) : i # j /\ yamlFile[i].name = yamlFile[j].name

\* parseRuleFromBytes, the range over h visiting the names in the given
\* order: [rules, outcome].
RECURSIVE parseRulesInOrder(_, _, _)
parseRulesInOrder(h, order, rules) ==
    IF order = <<>> THEN [rules |-> rules, outcome |-> "ok"]
    ELSE LET r == CreateRuleFromFields(h[Head(order)])
         IN  IF r.outcome # "ok" THEN [rules |-> <<>>, outcome |-> r.outcome]
             ELSE parseRulesInOrder(h, Tail(order), Append(rules, r.rule))

LdOthers == <<windows, splitVars, mvVars, adVars, shVars, btVars, cgVars, rmVars, gpVars, gbVars, mdVars, sdVars, fvVars, coVars, mfVars, ffVars>>

\* LoadAllRules, one iteration of the loop over availables: parseRuleFile.
ParseRuleFile ==
    /\ ldPc = "files"
    /\ ldIdx <= Len(ldAvailables)
    /\ LET yamlFile == ldAvailables[ldIdx]
           names == {yamlFile[i].name : i \in 1..Len(yamlFile)}
           h == [n \in names |-> CHOOSE d \in {yamlFile[i] : i \in 1..Len(yamlFile)} : d.name = n]
       IN  IF HasRepeatedKey(yamlFile)
           THEN /\ ldPc' = "failed"
                /\ ldResult' = [rules |-> <<>>, err |-> "mapping key already defined"]
                /\ UNCHANGED <<ldIdx, ldParsed>>
           ELSE \E order \in MapOrders(names) :
                    LET rs == parseRulesInOrder(h, order, <<>>)
                    IN  IF rs.outcome = "ok"
                        THEN /\ ldParsed' = ldParsed \o rs.rules
                             /\ ldIdx' = ldIdx + 1
                             /\ UNCHANGED <<ldPc, ldResult>>
                        ELSE /\ ldPc' = IF rs.outcome = "panic" THEN "panicked" ELSE "failed"
                             /\ ldResult' = [rules |-> <<>>, err |-> rs.outcome]
                             /\ UNCHANGED <<ldIdx, ldParsed>>
    /\ UNCHANGED <<ldAvailables, LdOthers>>

\* LoadAllRules after the loop: return parsedRules, nil.
LoadReturn ==
    /\ ldPc = "files"
    /\ ldIdx > Len(ldAvailables)
    /\ ldPc' = "done"
    /\ ldResult' = [rules |-> ldParsed, err |-> ""]
    /\ UNCHANGED <<ldAvailables, ldIdx, ldParsed, LdOthers>>

InitLoad ==
    /\ windows = FALSE
    /\ SplitIdle
    /\ MvIdle
    /\ AdIdle
    /\ ShIdle
    /\ FfIdle
    /\ MfIdle
    /\ CoIdle
    /\ FvIdle
    /\ SdIdle
    /\ MdIdle
    /\ GbIdle
    /\ GpIdle
    /\ BtIdle
    /\ CgIdle
    /\ RmIdle
    /\ ldPc = "files"
    /\ ldAvailables \in Availables
    /\ ldIdx = 1
    /\ ldParsed = <<>>
    /\ ldResult = [rules |-> <<>>, err |-> ""]

NextLoad == ParseRuleFile \/ LoadReturn

SpecLoad == InitLoad /\ [][NextLoad]_vars

\* The declarations of the embedded files, by file and position.
DeclarationSites ==
    UNION {{<<f, i>> : i \in 1..Len(ldAvailables[f])} : f \in 1..Len(ldAvailables)}
DeclarationAt(site) == ldAvailables[site[1]][site[2]]

\* The variant keys a declaration contains.
VariantKeys(d) ==
    {k \in {"func", "struct", "raw", "file"} :
        \/ k = "func" /\ d.func # Absent
        \/ k = "struct" /\ d.struct # Absent
        \/ k = "raw" /\ d.raw # Absent
        \/ k = "file" /\ d.file # Absent}

LoadEnded == ldPc \in {"done", "failed", "panicked"}

\* C14: when some declaration of the embedded files contains more than one
\* of the variant keys func, struct, raw, file, the load fails.
C14_AmbiguousVariantRejected ==
    (LoadEnded /\ \E s \in DeclarationSites : Cardinality(VariantKeys(DeclarationAt(s))) > 1)
    => ldPc # "done"

\* C15: when two declarations of the embedded files (of one file or of two)
\* share a name, LoadAllRules fails; and the rules it returns on success
\* have pairwise distinct names.
C15_DuplicateNamesFail ==
    LoadEnded
    => /\ (\E s, t \in DeclarationSites :
              s # t /\ DeclarationAt(s).name = DeclarationAt(t).name) => ldPc # "done"
       /\ ldPc = "done"
          => \A i, j \in 1..Len(ldResult.rules) :
                i # j => ldResult.rules[i].name # ldResult.rules[j].name

(***************************************************************************)
(* GetBuildPackages                                                        *)
(***************************************************************************)
WordInstall == <<"i", "n", "s", "t", "a", "l", "l">>

\* A loaded package: its ID, whether pkg.Errors is set, whether pkg.Module
\* is set.
Package(id, errors, module) == [id |-> id, errors |-> errors, module |-> module]

\* The module of TestGetPackages: module testmodule with a main.go in cmd,
\* app/vmctl and pkg/lib and none at its root.
PatternCmd == <<".", "/", "c", "m", "d">>
PatternVmctl == <<".", "/", "a", "p", "p", "/", "v", "m", "c", "t", "l">>
PatternCmdAll == <<".", "/", "c", "m", "d", "/", ".", ".", ".">>
PatternDot == <<".">>
PatternNonexistent == <<".", "/", "n", "o", "n", "e", "x", "i", "s", "t", "e", "n", "t">>
Patterns == {PatternCmd, PatternVmctl, PatternCmdAll, PatternDot, PatternNonexistent}

\* packages.Load(cfg, pattern) in that module: a pattern that names no
\* loadable package yields one package that carries the error.
Load(pattern) ==
    IF pattern \in {PatternCmd, PatternCmdAll} THEN <<Package(<<"t", "e", "s", "t", "m", "o", "d", "u", "l", "e", "/", "c", "m", "d">>, FALSE, TRUE)>>
    ELSE IF pattern = PatternVmctl THEN <<Package(<<"t", "e", "s", "t", "m", "o", "d", "u", "l", "e", "/", "a", "p", "p", "/", "v", "m", "c", "t", "l">>, FALSE, TRUE)>>
    ELSE IF pattern = PatternDot THEN <<Package(<<"t", "e", "s", "t", "m", "o", "d", "u", "l", "e">>, TRUE, TRUE)>>
    ELSE IF pattern = PatternNonexistent THEN <<Package(<<"t", "e", "s", "t", "m", "o", "d", "u", "l", "e", "/", "n", "o", "n", "e", "x", "i", "s", "t", "e", "n", "t">>, TRUE, TRUE)>>
    ELSE <<Package(pattern, TRUE, FALSE)>>

\* The arguments of the wrapper: build [build flags] [packages].
BuildArgs ==
    {[args |-> <<WordBuild>> \o Concat(flags) \o pkgs, patterns |-> pkgs] :
        flags \in UNION {[1..n -> BuildFlags] : n \in 0..MaxBuildFlags},
        pkgs \in UNION {[1..n -> Patterns] : n \in 0..MaxPackages}}

\* GetBuildPackages, the loop over pkgs: a package with errors or without
\* a module is skipped.
Loadable(pkgs) ==
    LET Kept(pkg) == ~(pkg.errors \/ ~pkg.module) IN SelectSeq(pkgs, Kept)

GpOthers == <<windows, splitVars, mvVars, adVars, shVars, btVars, cgVars, rmVars, ldVars, gbVars, mdVars, sdVars, fvVars, coVars, mfVars, ffVars>>

\* GetBuildPackages, one iteration of the loop over args, from the last
\* argument backwards.
LoadPattern ==
    /\ gpPc = "loop"
    /\ IF gpI < 1
       THEN /\ gpPc' = "default"
            /\ UNCHANGED <<gpI, gpBuildPkgs, gpFound, gpResult>>
       ELSE LET arg == gpArgs[gpI]
            IN  IF gpI > 1 /\ gpArgs[gpI - 1] \in flagsWithPathValues
                THEN /\ gpPc' = "default"
                     /\ UNCHANGED <<gpI, gpBuildPkgs, gpFound, gpResult>>
                ELSE IF HasPrefix(arg, <<"-">>) \/ arg \in {WordGo, WordBuild, WordInstall}
                THEN /\ gpPc' = "default"
                     /\ UNCHANGED <<gpI, gpBuildPkgs, gpFound, gpResult>>
                ELSE IF gpDriverFails
                THEN /\ gpPc' = "failed"
                     /\ gpResult' = [pkgs |-> <<>>, err |-> "failed to load packages for pattern"]
                     /\ UNCHANGED <<gpI, gpBuildPkgs, gpFound>>
                ELSE LET kept == Loadable(Load(arg))
                     IN  /\ gpBuildPkgs' = gpBuildPkgs \o kept
                         /\ gpFound' = (gpFound \/ kept # <<>>)
                         /\ gpI' = gpI - 1
                         /\ UNCHANGED <<gpPc, gpResult>>
    /\ UNCHANGED <<gpArgs, gpPatterns, gpDriverFails, GpOthers>>

\* GetBuildPackages after the loop: the current directory when nothing was
\* found, and the return.
LoadDefault ==
    /\ gpPc = "default"
    /\ IF ~gpFound
       THEN IF gpDriverFails
            THEN /\ gpPc' = "failed"
                 /\ gpResult' = [pkgs |-> <<>>, err |-> "failed to load packages for pattern ."]
                 /\ UNCHANGED gpBuildPkgs
            ELSE /\ gpBuildPkgs' = Load(PatternDot)
                 /\ gpPc' = "done"
                 /\ gpResult' = [pkgs |-> gpBuildPkgs', err |-> ""]
       ELSE /\ gpPc' = "done"
            /\ gpResult' = [pkgs |-> gpBuildPkgs, err |-> ""]
            /\ UNCHANGED gpBuildPkgs
    /\ UNCHANGED <<gpArgs, gpPatterns, gpDriverFails, gpI, gpFound, GpOthers>>

InitPackages ==
    /\ windows = FALSE
    /\ SplitIdle
    /\ MvIdle
    /\ AdIdle
    /\ ShIdle
    /\ FfIdle
    /\ MfIdle
    /\ CoIdle
    /\ FvIdle
    /\ SdIdle
    /\ MdIdle
    /\ GbIdle
    /\ BtIdle
    /\ CgIdle
    /\ RmIdle
    /\ LdIdle
    /\ gpPc = "loop"
    /\ \E a \in BuildArgs : gpArgs = a.args /\ gpPatterns = a.patterns
    /\ gpDriverFails \in BOOLEAN
    /\ gpI = Len(gpArgs)
    /\ gpBuildPkgs = <<>>
    /\ gpFound = FALSE
    /\ gpResult = [pkgs |-> <<>>, err |-> ""]

NextPackages == LoadPattern \/ LoadDefault

SpecPackages == InitPackages /\ [][NextPackages]_vars

\* The packages of a sequence, as a set.
PackagesOf(pkgs) == {pkgs[k] : k \in 1..Len(pkgs)}

\* C16: when packages.Load works, GetBuildPackages returns without error;
\* the result holds the packages of every package pattern that follows the
\* flags, those with errors included, and is the current-directory package
\* when there is no pattern.
C16_EveryPatternContributes ==
    (gpPc \in {"done", "failed"} /\ ~gpDriverFails)
    => /\ gpPc = "done"
       /\ gpResult.err = ""
       /\ PackagesOf(gpResult.pkgs) =
             IF gpPatterns = <<>> THEN PackagesOf(Load(PatternDot))
             ELSE UNION {PackagesOf(Load(gpPatterns[k])) : k \in 1..Len(gpPatterns)}

(***************************************************************************)
(* The wrapper: GoBuild, Setup, BuildWithToolexec                          *)
(***************************************************************************)
\* The commands the wrapper starts.
CmdDryRun == "go build -a -x -n"
CmdModTidy == "go mod tidy"
CmdToolexec == "go build -work -toolexec -a"

\* isSetup: not implemented, always false.
isSetup == FALSE

\* GoBuild: backupFiles.
backupFiles == {"go.mod", "go.sum", "go.work", "go.work.sum"}

\* What util.BackupFile may have copied: nothing, the files of a module
\* without workspace, or all four; a file that is absent or fails to copy
\* is an error that GoBuild only logs.
BackupOutcomes == {{}, {"go.mod", "go.sum"}, backupFiles}

\* The packages GetBuildPackages may return to Setup: whether pkg.Module is
\* set, util.GetPackageDir(pkg) ("" without Go files) and pkg.Module.Dir.
BuildPackages ==
    UNION {[1..n -> [module : BOOLEAN, pkgDir : {"", "cmd", "app"}, moduleDir : {"mod", "mod2"}]] :
        n \in 0..MaxPackages}

\* Setup: the directory otel.runtime.go is generated in, the module
\* directory when the package has no Go files.
RuntimeDir(pkg) == IF pkg.pkgDir = "" THEN pkg.moduleDir ELSE pkg.pkgDir

\* A clean-up that looks at the package directory only.
CleanupDirOfPackage(pkg) == pkg.pkgDir

\* GoBuild's deferred function: the directory otel.runtime.go is removed
\* from, "" when there is none.
CleanupDir(pkg) == IF pkg.pkgDir = "" /\ pkg.module THEN pkg.moduleDir ELSE pkg.pkgDir

\* GoBuild goes on to the build whatever Setup returned.
AfterSetupIgnoringError(failed) == "build"

\* GoBuild after Setup: return err when Setup failed, else the build.
AfterSetup(failed) == IF failed THEN "deferred" ELSE "build"

GbOthers == <<windows, splitVars, mvVars, adVars, shVars, btVars, cgVars, rmVars, ldVars, gpVars, mdVars, sdVars, fvVars, coVars, mfVars, ffVars>>

\* A stage of Setup that has run: pkg is the index of the package it ran
\* for, 0 for the stages that run once.
Stage(stage, pkg, ok) == [stage |-> stage, pkg |-> pkg, ok |-> ok]

\* Setup returns: nil or an error.
SetupReturns(failed) ==
    /\ gbSetup' = IF failed THEN "failed" ELSE "ok"
    /\ gbPc' = AfterSetup(failed)

\* GoBuild: util.BackupFile, whose error is only logged; Setup is called.
BackupFiles ==
    /\ gbPc = "backup"
    /\ gbBackup' \in BackupOutcomes
    /\ gbSetup' = "running"
    /\ gbPc' = "getBuildPackages"
    /\ UNCHANGED <<gbPkgs, gbPatterns, gbIdx, gbProcessedPkgDirs, gbProcessedModDirs,
                   gbCommands, gbBuilt, gbResult, gbLog, gbRuntimeFiles, gbDirty,
                   gbCleanupFailed, GbOthers>>

\* Setup: isSetup and util.GetBuildPackages.
SetupGetBuildPackages ==
    /\ gbPc = "getBuildPackages"
    /\ IF isSetup
       THEN SetupReturns(FALSE) /\ UNCHANGED gbPkgs
       ELSE \/ SetupReturns(TRUE) /\ UNCHANGED gbPkgs
            \/ /\ gbPkgs' \in BuildPackages
               /\ gbPc' = "findDeps"
               /\ UNCHANGED gbSetup
    /\ UNCHANGED <<gbPatterns, gbIdx, gbProcessedPkgDirs, gbProcessedModDirs,
                   gbCommands, gbBuilt, gbResult, gbLog, gbRuntimeFiles, gbBackup, gbDirty,
                   gbCleanupFailed, GbOthers>>

\* A stage whose error is dropped: the next stage follows in any case.
RunStageIgnoringError(stage, next) ==
    \E ok \in BOOLEAN :
        /\ gbLog' = Append(gbLog, Stage(stage, 0, ok))
        /\ gbPc' = next
        /\ UNCHANGED gbSetup

\* A stage of Setup that runs once: on an error Setup returns it, else the
\* next stage follows.
RunStage(stage, next) ==
    \E ok \in BOOLEAN :
        /\ gbLog' = Append(gbLog, Stage(stage, 0, ok))
        /\ IF ok THEN gbPc' = next /\ UNCHANGED gbSetup ELSE SetupReturns(TRUE)

\* Setup: sp.findDeps, which runs the dry-run build.
SetupFindDeps ==
    /\ gbPc = "findDeps"
    /\ gbCommands' = Append(gbCommands, CmdDryRun)
    /\ RunStage("findDeps", "matchDeps")
    /\ UNCHANGED <<gbPkgs, gbPatterns, gbIdx, gbProcessedPkgDirs, gbProcessedModDirs,
                   gbBuilt, gbResult, gbRuntimeFiles, gbBackup, gbDirty, gbCleanupFailed,
                   GbOthers>>

\* Setup: sp.matchDeps.
SetupMatchDeps ==
    /\ gbPc = "matchDeps"
    /\ RunStage("matchDeps", "extract")
    /\ UNCHANGED <<gbPkgs, gbPatterns, gbIdx, gbProcessedPkgDirs, gbProcessedModDirs,
                   gbCommands, gbBuilt, gbResult, gbRuntimeFiles, gbBackup, gbDirty,
                   gbCleanupFailed, GbOthers>>

\* Setup: sp.extract.
SetupExtract ==
    /\ gbPc = "extract"
    /\ RunStage("extract", "packages")
    /\ UNCHANGED <<gbPkgs, gbPatterns, gbIdx, gbProcessedPkgDirs, gbProcessedModDirs,
                   gbCommands, gbBuilt, gbResult, gbRuntimeFiles, gbBackup, gbDirty,
                   gbCleanupFailed, GbOthers>>

\* Setup, one iteration of the loop over pkgs: addDeps (otel.runtime.go)
\* once per package directory, then syncDeps (go.mod, go mod tidy) once per
\* module directory. written: a failed addDeps left a file behind; changed:
\* syncDeps added a replace directive.
SetupPackage ==
    /\ gbPc = "packages"
    /\ gbIdx <= Len(gbPkgs)
    /\ LET pkg == gbPkgs[gbIdx]
           pkgDir == RuntimeDir(pkg)
           addsDeps == pkgDir \notin gbProcessedPkgDirs
           syncsDeps == pkg.moduleDir \notin gbProcessedModDirs
       IN  IF ~pkg.module
           THEN /\ gbIdx' = gbIdx + 1
                /\ UNCHANGED <<gbPc, gbSetup, gbProcessedPkgDirs, gbProcessedModDirs,
                               gbCommands, gbLog, gbRuntimeFiles, gbDirty>>
           ELSE \E addOk, written, syncOk, changed \in BOOLEAN :
                    LET addFails == addsDeps /\ ~addOk
                        syncRuns == ~addFails /\ syncsDeps
                        syncFails == syncRuns /\ ~syncOk
                        afterAdd == IF addsDeps
                                    THEN Append(gbLog, Stage("addDeps", gbIdx, addOk))
                                    ELSE gbLog
                    IN  /\ gbProcessedPkgDirs' = gbProcessedPkgDirs \cup {pkgDir}
                        /\ gbRuntimeFiles' =
                              IF addsDeps /\ (addOk \/ written)
                              THEN gbRuntimeFiles \cup {pkgDir} ELSE gbRuntimeFiles
                        /\ gbProcessedModDirs' =
                              IF addFails THEN gbProcessedModDirs
                              ELSE gbProcessedModDirs \cup {pkg.moduleDir}
                        /\ gbLog' = IF syncRuns
                                    THEN Append(afterAdd, Stage("syncDeps", gbIdx, syncOk))
                                    ELSE afterAdd
                        /\ gbDirty' = IF syncRuns /\ changed
                                      THEN gbDirty \cup {"go.mod", "go.sum"} ELSE gbDirty
                        /\ gbCommands' = IF syncRuns /\ changed
                                         THEN Append(gbCommands, CmdModTidy) ELSE gbCommands
                        /\ IF addFails \/ syncFails
                           THEN SetupReturns(TRUE) /\ UNCHANGED gbIdx
                           ELSE gbIdx' = gbIdx + 1 /\ UNCHANGED <<gbPc, gbSetup>>
    /\ UNCHANGED <<gbPkgs, gbPatterns, gbBuilt, gbResult, gbBackup, gbCleanupFailed, GbOthers>>

\* Setup: return sp.store(matched).
SetupStore ==
    /\ gbPc = "packages"
    /\ gbIdx > Len(gbPkgs)
    /\ \E ok \in BOOLEAN :
          /\ gbLog' = Append(gbLog, Stage("store", 0, ok))
          /\ SetupReturns(~ok)
    /\ UNCHANGED <<gbPkgs, gbPatterns, gbIdx, gbProcessedPkgDirs, gbProcessedModDirs,
                   gbCommands, gbBuilt, gbResult, gbRuntimeFiles, gbBackup, gbDirty,
                   gbCleanupFailed, GbOthers>>

\* BuildWithToolexec, one buildSinglePackage: with several package patterns
\* one build per pattern, stopping at the first that fails; else one build.
BuildSinglePackage ==
    /\ gbPc = "build"
    /\ gbCommands' = Append(gbCommands, CmdToolexec)
    /\ gbBuilt' = gbBuilt + 1
    /\ \/ gbPc' = "deferred" /\ gbResult' = "err"
       \/ IF gbPatterns > 1 /\ gbBuilt' < gbPatterns
          THEN UNCHANGED <<gbPc, gbResult>>
          ELSE gbPc' = "deferred" /\ gbResult' = "nil"
    /\ UNCHANGED <<gbPkgs, gbPatterns, gbIdx, gbProcessedPkgDirs, gbProcessedModDirs,
                   gbSetup, gbLog, gbRuntimeFiles, gbBackup, gbDirty, gbCleanupFailed,
                   GbOthers>>

\* GoBuild's deferred function, then the return: GetBuildPackages again,
\* os.RemoveAll of otel.runtime.go in each package directory, RestoreFile.
\* An error of any of them is logged and nothing more.
Deferred ==
    /\ gbPc = "deferred"
    /\ \E loaded \in BOOLEAN, kept \in SUBSET gbRuntimeFiles, restored \in SUBSET gbBackup :
          LET pkgs == IF loaded THEN gbPkgs ELSE <<>>
              dirs == {CleanupDir(pkgs[k]) : k \in 1..Len(pkgs)} \ {""}
              left == kept \cap dirs
          IN  /\ gbRuntimeFiles' = (gbRuntimeFiles \ dirs) \cup left
              /\ gbDirty' = gbDirty \ restored
              /\ gbCleanupFailed' =
                    (IF loaded THEN {} ELSE {"GetBuildPackages"})
                    \cup (IF left = {} THEN {} ELSE {"RemoveAll"})
                    \cup (IF restored = gbBackup THEN {} ELSE {"RestoreFile"})
    /\ gbPc' = "done"
    /\ gbResult' = IF gbResult = "" THEN "err" ELSE gbResult
    /\ UNCHANGED <<gbPkgs, gbPatterns, gbIdx, gbProcessedPkgDirs, gbProcessedModDirs,
                   gbCommands, gbSetup, gbBuilt, gbLog, gbBackup, GbOthers>>

InitGoBuild ==
    /\ windows = FALSE
    /\ SplitIdle
    /\ MvIdle
    /\ AdIdle
    /\ ShIdle
    /\ FfIdle
    /\ MfIdle
    /\ CoIdle
    /\ FvIdle
    /\ SdIdle
    /\ MdIdle
    /\ BtIdle
    /\ CgIdle
    /\ RmIdle
    /\ LdIdle
    /\ GpIdle
    /\ gbPc = "backup"
    /\ gbPkgs = <<>>
    /\ gbPatterns \in 0..MaxPackages
    /\ gbIdx = 1
    /\ gbProcessedPkgDirs = {}
    /\ gbProcessedModDirs = {}
    /\ gbCommands = <<>>
    /\ gbSetup = "pending"
    /\ gbBuilt = 0
    /\ gbResult = ""
    /\ gbLog = <<>>
    /\ gbRuntimeFiles = {}
    /\ gbBackup = {}
    /\ gbDirty = {}
    /\ gbCleanupFailed = {}

NextGoBuild ==
    \/ BackupFiles
    \/ SetupGetBuildPackages
    \/ SetupFindDeps
    \/ SetupMatchDeps
    \/ SetupExtract
    \/ SetupPackage
    \/ SetupStore
    \/ BuildSinglePackage
    \/ Deferred

SpecGoBuild == InitGoBuild /\ [][NextGoBuild]_vars

\* The build tool has been started with -toolexec.
ToolexecStarted == \E k \in 1..Len(gbCommands) : gbCommands[k] = CmdToolexec

\* C17: the build tool is started with -toolexec only after Setup has
\* returned without error; when Setup has failed, or has not returned yet,
\* it has not been started.
C17_BuildOnlyAfterSetup == ToolexecStarted => gbSetup = "ok"

C17_Witness ==
    /\ gbPc = "done"
    /\ gbSetup = "ok"
    /\ ToolexecStarted
    /\ gbCommands[1] = CmdDryRun
    /\ gbResult = "nil"

\* The place of a stage in the order dependency discovery, matching,
\* extraction, linker-file generation, module wiring, rule-set store.
StageRank(stage) ==
    CASE stage = "findDeps" -> 1
      [] stage = "matchDeps" -> 2
      [] stage = "extract" -> 3
      [] stage = "addDeps" -> 4
      [] stage = "syncDeps" -> 5
      [] stage = "store" -> 6

\* A stage that failed is the last stage that ran.
FailureEndsSetup == \A i \in 1..Len(gbLog) : ~gbLog[i].ok => i = Len(gbLog)

\* The rule sets are stored only after every earlier stage has run, for
\* every package with a module.
StoredLast ==
    (gbLog # <<>> /\ gbLog[Len(gbLog)].stage = "store")
    => /\ \A st \in {"findDeps", "matchDeps", "extract"} :
             \E i \in 1..Len(gbLog) : gbLog[i].stage = st /\ gbLog[i].ok
       /\ \A k \in 1..Len(gbPkgs) :
             gbPkgs[k].module
             => /\ RuntimeDir(gbPkgs[k]) \in gbProcessedPkgDirs
                /\ gbPkgs[k].moduleDir \in gbProcessedModDirs

\* C21 as stated: the stages of one Setup run never go back in the order
\* discovery, matching, linker-file generation, module wiring, store - no
\* linker file is generated once module wiring has started - the store comes
\* after every earlier stage, and a failed stage is the last one.
C21_StagesSequentialAsStated ==
    /\ \A i, j \in 1..Len(gbLog) :
          i < j => /\ StageRank(gbLog[i].stage) <= StageRank(gbLog[j].stage)
                   /\ gbLog[i].pkg = 0 => StageRank(gbLog[i].stage) < StageRank(gbLog[j].stage)
    /\ StoredLast
    /\ FailureEndsSetup

\* C21: discovery, matching and extraction run once, in this order, before
\* the packages; the packages are taken in turn, each with its linker-file
\* generation before its module wiring, so that with several package
\* directories a linker file is generated after the module wiring of an
\* earlier package; the store comes after all of them, and a failed stage
\* is the last one.
C21_StagesPerPackage ==
    /\ \A i, j \in 1..Len(gbLog) :
          i < j => \/ StageRank(gbLog[i].stage) < StageRank(gbLog[j].stage)
                   \/ /\ gbLog[i].pkg > 0
                      /\ gbLog[j].pkg > 0
                      /\ gbLog[i].pkg < gbLog[j].pkg
    /\ StoredLast
    /\ FailureEndsSetup

C21_Witness ==
    /\ gbSetup = "ok"
    /\ Len(gbLog) = 7
    /\ gbLog[4] = Stage("addDeps", 1, TRUE)
    /\ gbLog[5] = Stage("syncDeps", 1, TRUE)
    /\ gbLog[6] = Stage("addDeps", 2, TRUE)
    /\ gbLog[7] = Stage("store", 0, TRUE)

\* GoBuild with the fairness of a sequential program: a step that can be
\* taken is taken.
SpecGoBuildFair == InitGoBuild /\ [][NextGoBuild]_vars /\ WF_vars(NextGoBuild)

\* A step that removes an otel.runtime.go or restores a file.
CleansUp == gbRuntimeFiles' \subseteq gbRuntimeFiles /\ gbDirty' \subseteq gbDirty
            /\ (gbRuntimeFiles' # gbRuntimeFiles \/ gbDirty' # gbDirty)

\* Setup has returned and, when it succeeded, so has the build.
SetupAndBuildFinished ==
    /\ gbPc = "deferred"
    /\ gbSetup \in {"ok", "failed"}
    /\ gbSetup = "ok" => gbResult \in {"nil", "err"}

matchDepsConcurrencyMultiplier == 2
\* runtime.NumCPU()
NumCPU == 1
MaxDeps == 3

\* What runMatch returns for a dependency: an empty set, a set with a
\* rule, or an error.
MatchResults(importPath) ==
    {[set |-> NewInstRuleSet(importPath), err |-> ""],
     [set |-> AddFileRule(NewInstRuleSet(importPath), AddFile), err |-> ""],
     [set |-> NoRuleSet, err |-> "failed to parse file"]}

\* The import path of the i-th compile command of the build plan.
ImportPathOfDep(i) == <<"p", "k", "g", ToString(i)>>

DepLists ==
    UNION {{d \in [1..n -> UNION {MatchResults(ImportPathOfDep(i)) : i \in 1..n}] :
               \A i \in 1..n : d[i] \in MatchResults(ImportPathOfDep(i))} : n \in 0..MaxDeps}

\* A mutex that is never held.
MuFreeAlways == TRUE

\* mu.Lock() returns only when no worker holds mu.
MuFree == mdMu = 0

MdOthers == <<windows, splitVars, mvVars, adVars, shVars, btVars, cgVars, rmVars, ldVars, gpVars, gbVars, sdVars, fvVars, coVars, mfVars, ffVars>>

\* matchDeps: rule.LoadAllRules and the early returns; g.SetLimit.
LoadRules ==
    /\ mdPc = "load"
    /\ \/ /\ mdPc' = "done"
          /\ mdResult' = [returned |-> TRUE, list |-> <<>>, err |-> "failed to load rules"]
       \/ /\ mdPc' = "done"
          /\ mdResult' = [returned |-> TRUE, list |-> <<>>, err |-> ""]
          /\ \A i \in 1..Len(mdDeps) : mdDeps[i].err = "" /\ IsEmpty(mdDeps[i].set)
       \/ /\ mdPc' = "spawn"
          /\ UNCHANGED mdResult
    /\ UNCHANGED <<mdDeps, mdNext, mdTask, mdLocal, mdMatched, mdMu, mdErr, mdCancelled,
                   mdPending, MdOthers>>

\* The workers that hold a slot of the pool.
Active == {i \in 1..Len(mdDeps) : mdTask[i] \notin {"new", "finished"}}

\* matchDeps, one iteration of the loop over deps: g.Go blocks until the
\* pool has a free slot, then starts the worker.
Go ==
    /\ mdPc = "spawn"
    /\ IF mdNext > Len(mdDeps)
       THEN /\ mdPc' = "wait"
            /\ UNCHANGED <<mdNext, mdTask>>
       ELSE /\ Cardinality(Active) < NumCPU * matchDepsConcurrencyMultiplier
            /\ mdTask' = [mdTask EXCEPT ![mdNext] = "running"]
            /\ mdNext' = mdNext + 1
            /\ UNCHANGED mdPc
    /\ UNCHANGED <<mdDeps, mdLocal, mdMatched, mdMu, mdErr, mdCancelled, mdPending,
                   mdResult, MdOthers>>

\* A worker: sp.runMatch(dep, rulesByTarget); an error ends the worker and
\* the errgroup keeps the first one; an empty set ends it too.
WorkerRunMatch(i) ==
    /\ mdTask[i] = "running"
    /\ IF mdDeps[i].err # ""
       THEN /\ mdErr' = IF mdErr = "" THEN mdDeps[i].err ELSE mdErr
            /\ mdTask' = [mdTask EXCEPT ![i] = "finished"]
       ELSE /\ mdTask' = [mdTask EXCEPT ![i] = IF IsEmpty(mdDeps[i].set) THEN "finished" ELSE "matched"]
            /\ UNCHANGED mdErr
    /\ UNCHANGED <<mdPc, mdDeps, mdNext, mdLocal, mdMatched, mdMu, mdCancelled, mdPending,
                   mdResult, MdOthers>>

\* A worker: mu.Lock().
WorkerLock(i) ==
    /\ mdTask[i] = "matched"
    /\ MuFree
    /\ mdMu' = i
    /\ mdTask' = [mdTask EXCEPT ![i] = "locked"]
    /\ UNCHANGED <<mdPc, mdDeps, mdNext, mdLocal, mdMatched, mdErr, mdCancelled, mdPending,
                   mdResult, MdOthers>>

\* A worker: matched = append(matched, m), the read of matched.
WorkerRead(i) ==
    /\ mdTask[i] = "locked"
    /\ mdLocal' = [mdLocal EXCEPT ![i] = mdMatched]
    /\ mdTask' = [mdTask EXCEPT ![i] = "read"]
    /\ UNCHANGED <<mdPc, mdDeps, mdNext, mdMatched, mdMu, mdErr, mdCancelled, mdPending,
                   mdResult, MdOthers>>

\* A worker: matched = append(matched, m), the write of matched.
WorkerWrite(i) ==
    /\ mdTask[i] = "read"
    /\ mdMatched' = Append(mdLocal[i], i)
    /\ mdTask' = [mdTask EXCEPT ![i] = "written"]
    /\ UNCHANGED <<mdPc, mdDeps, mdNext, mdLocal, mdMu, mdErr, mdCancelled, mdPending,
                   mdResult, MdOthers>>

\* A worker: mu.Unlock() and return nil.
WorkerUnlock(i) ==
    /\ mdTask[i] = "written"
    /\ mdMu' = IF mdMu = i THEN 0 ELSE mdMu
    /\ mdTask' = [mdTask EXCEPT ![i] = "finished"]
    /\ UNCHANGED <<mdPc, mdDeps, mdNext, mdLocal, mdMatched, mdErr, mdCancelled, mdPending,
                   mdResult, MdOthers>>

Worker ==
    \E i \in 1..Len(mdDeps) :
        \/ WorkerRunMatch(i)
        \/ WorkerLock(i)
        \/ WorkerRead(i)
        \/ WorkerWrite(i)
        \/ WorkerUnlock(i)

\* The global context is cancelled while matchDeps runs. The context that
\* errgroup.WithContext derives is discarded (g, _ :=) and no worker looks
\* at ctx.
Cancel ==
    /\ mdPc \in {"spawn", "wait"}
    /\ ~mdCancelled
    /\ mdCancelled' = TRUE
    /\ mdPending' = {i \in 1..Len(mdDeps) : mdTask[i] = "new"}
    /\ UNCHANGED <<mdPc, mdDeps, mdNext, mdTask, mdLocal, mdMatched, mdMu, mdErr, mdResult,
                   MdOthers>>

\* matchDeps: g.Wait() and the return.
Wait ==
    /\ mdPc = "wait"
    /\ \A i \in 1..Len(mdDeps) : mdTask[i] = "finished"
    /\ mdPc' = "done"
    /\ mdResult' = IF mdErr # ""
                   THEN [returned |-> TRUE, list |-> <<>>, err |-> mdErr]
                   ELSE [returned |-> TRUE, list |-> mdMatched, err |-> ""]
    /\ UNCHANGED <<mdDeps, mdNext, mdTask, mdLocal, mdMatched, mdMu, mdErr, mdCancelled,
                   mdPending, MdOthers>>

InitMatchDeps ==
    /\ windows = FALSE
    /\ SplitIdle
    /\ MvIdle
    /\ AdIdle
    /\ ShIdle
    /\ FfIdle
    /\ MfIdle
    /\ CoIdle
    /\ FvIdle
    /\ SdIdle
    /\ BtIdle
    /\ CgIdle
    /\ RmIdle
    /\ LdIdle
    /\ GpIdle
    /\ GbIdle
    /\ mdPc = "load"
    /\ mdDeps \in DepLists
    /\ mdNext = 1
    /\ mdTask = [i \in 1..Len(mdDeps) |-> "new"]
    /\ mdLocal = [i \in 1..Len(mdDeps) |-> <<>>]
    /\ mdMatched = <<>>
    /\ mdMu = 0
    /\ mdErr = ""
    /\ mdCancelled = FALSE
    /\ mdPending = {}
    /\ mdResult = [returned |-> FALSE, list |-> <<>>, err |-> ""]

NextMatchDeps == LoadRules \/ Go \/ Worker \/ Cancel \/ Wait

SpecMatchDeps == InitMatchDeps /\ [][NextMatchDeps]_vars

\* C22: once ctx has been cancelled while matchDeps runs, no dependency
\* whose worker had not started then is matched, and matchDeps does not
\* return a successful result.
C22_CancellationStopsPool ==
    mdCancelled
    => /\ \A i \in mdPending : mdTask[i] = "new"
       /\ mdPc = "done" => mdResult.err # ""

\* The dependencies with a non-empty match.
NonEmptyMatches ==
    {i \in 1..Len(mdDeps) : mdDeps[i].err = "" /\ ~IsEmpty(mdDeps[i].set)}

\* C23: whatever the interleaving of the workers, a matchDeps that returns
\* without error returns each dependency with a non-empty match exactly once
\* and no other; when a worker failed it returns the error and no list.
C23_ExactlyTheNonEmptyMatches ==
    (mdPc = "done" /\ mdResult.returned)
    => IF \E i \in 1..Len(mdDeps) : mdTask[i] = "finished" /\ mdDeps[i].err # ""
       THEN mdResult.err # "" /\ mdResult.list = <<>>
       ELSE mdResult.err = ""
            => /\ {mdResult.list[k] : k \in 1..Len(mdResult.list)} = NonEmptyMatches
               /\ \A k, l \in 1..Len(mdResult.list) :
                     k # l => mdResult.list[k] # mdResult.list[l]

C23_Witness ==
    /\ mdPc = "done"
    /\ Len(mdDeps) = 3
    /\ mdResult.err = ""
    /\ mdResult.list = <<2, 1>>
    /\ IsEmpty(mdDeps[3].set)

(***************************************************************************)
(* Module wiring: syncDeps, addReplace, copyInstrumentationToVendor        *)
(***************************************************************************)
\* util.OtelRoot, shortened, and util.GetBuildTempDir() in the working
\* directory.
OtelRoot == <<"o", "t", "e", "l">>
BuildTempDir == <<".", "o", "t", "e", "l", "-", "b", "u", "i", "l", "d">>
PkgModule == OtelRoot \o <<"/", "p", "k", "g">>
HookA == OtelRoot \o <<"/", "a">>
HookB == OtelRoot \o <<"/", "b">>
HookElsewhere == <<"x", "/", "c">>
Elsewhere == <<".", ".", "/", "f", "o", "r", "k">>
CmdModVendor == "go mod vendor"

\* strings.TrimPrefix(s, prefix)
TrimPrefix(s, prefix) == IF HasPrefix(s, prefix) THEN SubSeq(s, Len(prefix) + 1, Len(s)) ELSE s

\* The local path of a module under util.OtelRoot.
LocalPath(oldPath) == FilepathJoin(BuildTempDir, TrimPrefix(oldPath, OtelRoot))

Replace(old, new) == [old |-> old, new |-> new]

\* The replace directives go.mod may hold before the first run.
Manifests ==
    {<<>>, <<Replace(HookA, Elsewhere)>>, <<Replace(PkgModule, Elsewhere)>>,
     <<Replace(PkgModule, LocalPath(PkgModule)), Replace(HookA, Elsewhere)>>}

\* The hook paths of the matched function rules.
RuleLists == UNION {[1..n -> {HookA, HookB, HookElsewhere}] : n \in 0..MaxFuncRules + 1}

\* An addReplace that does not look for an existing directive.
addReplaceAlways(modfile, path, rpath) ==
    [modfile |-> Append(modfile, Replace(path, rpath)), added |-> TRUE]

\* addReplace: [modfile, added].
addReplace(modfile, path, rpath) ==
    IF \E k \in 1..Len(modfile) : modfile[k].old = path
    THEN [modfile |-> modfile, added |-> FALSE]
    ELSE [modfile |-> Append(modfile, Replace(path, rpath)), added |-> TRUE]

\* copyInstrumentationToVendor: the keys of pkgPaths.
PkgPaths(rules) ==
    {PkgModule} \cup {rules[k] : k \in {j \in 1..Len(rules) : HasPrefix(rules[j], OtelRoot)}}

SdOthers == <<windows, splitVars, mvVars, adVars, shVars, btVars, cgVars, rmVars, ldVars, gpVars, gbVars, mdVars, fvVars, coVars, mfVars, ffVars>>

\* A run of syncDeps returns.
SyncReturns(err) ==
    /\ sdPc' = "returned"
    /\ sdErr' = err

\* syncDeps: the function rules are collected; without any, return nil;
\* else go.mod is parsed.
SyncStart ==
    /\ sdPc = "start"
    /\ sdRuns' = sdRuns + 1
    /\ sdIdx' = 1
    /\ sdChanged' = FALSE
    /\ sdAdded' = {}
    /\ sdWrote' = FALSE
    /\ sdCommands' = <<>>
    /\ sdToCopy' = {}
    /\ sdVisited' = <<>>
    /\ sdCopied' = {}
    /\ IF Len(sdRules) = 0
       THEN SyncReturns("") /\ UNCHANGED sdModfile
       ELSE \/ SyncReturns("failed to parse go.mod file") /\ UNCHANGED sdModfile
            \/ /\ sdModfile' = sdManifest
               /\ sdPc' = "rules"
               /\ sdErr' = ""
    /\ UNCHANGED <<sdRules, sdManifest, sdManifest0, sdVendor, sdMissing, sdCopyFails, SdOthers>>

\* syncDeps, one iteration of the loop over rules: the sanity check and
\* addReplace.
AddRuleReplace ==
    /\ sdPc = "rules"
    /\ sdIdx <= Len(sdRules)
    /\ LET oldPath == sdRules[sdIdx]
           r == addReplace(sdModfile, oldPath, LocalPath(oldPath))
       IN  IF ~HasPrefix(oldPath, OtelRoot)
           THEN /\ sdPc' = "panicked"
                /\ sdErr' = "sanity check"
                /\ UNCHANGED <<sdModfile, sdChanged, sdAdded, sdIdx>>
           ELSE \/ /\ sdModfile' = r.modfile
                   /\ sdChanged' = (sdChanged \/ r.added)
                   /\ sdAdded' = IF r.added THEN sdAdded \cup {oldPath} ELSE sdAdded
                   /\ sdIdx' = sdIdx + 1
                   /\ UNCHANGED <<sdPc, sdErr>>
                \/ /\ r.added
                   /\ SyncReturns("failed to add replace directive")
                   /\ UNCHANGED <<sdModfile, sdChanged, sdAdded, sdIdx>>
    /\ UNCHANGED <<sdRules, sdManifest, sdManifest0, sdVendor, sdMissing, sdCopyFails, sdWrote,
                   sdCommands, sdToCopy, sdVisited, sdCopied, sdRuns, SdOthers>>

\* syncDeps after the loop: addReplace for the pkg module; without a change
\* return nil.
AddPkgReplace ==
    /\ sdPc = "rules"
    /\ sdIdx > Len(sdRules)
    /\ LET r == addReplace(sdModfile, PkgModule, LocalPath(PkgModule))
       IN  \/ /\ sdModfile' = r.modfile
              /\ sdChanged' = (sdChanged \/ r.added)
              /\ sdAdded' = IF r.added THEN sdAdded \cup {PkgModule} ELSE sdAdded
              /\ IF sdChanged'
                 THEN sdPc' = "write" /\ UNCHANGED sdErr
                 ELSE SyncReturns("")
           \/ /\ r.added
              /\ SyncReturns("failed to add replace directive")
              /\ UNCHANGED <<sdModfile, sdChanged, sdAdded>>
    /\ UNCHANGED <<sdRules, sdManifest, sdManifest0, sdVendor, sdMissing, sdCopyFails, sdIdx,
                   sdWrote, sdCommands, sdToCopy, sdVisited, sdCopied, sdRuns, SdOthers>>

\* syncDeps: writeGoMod and runModTidy; with a vendor directory the vendor
\* steps follow.
WriteGoMod ==
    /\ sdPc = "write"
    /\ sdWrote' = TRUE
    /\ \/ /\ SyncReturns("failed to write go.mod file")
          /\ UNCHANGED <<sdManifest, sdCommands>>
       \/ /\ sdManifest' = sdModfile
          /\ sdCommands' = Append(sdCommands, CmdModTidy)
          /\ \/ SyncReturns("go mod tidy failed")
             \/ IF sdVendor
                THEN sdPc' = "vendor" /\ UNCHANGED sdErr
                ELSE SyncReturns("")
    /\ UNCHANGED <<sdRules, sdManifest0, sdModfile, sdVendor, sdMissing, sdCopyFails, sdIdx,
                   sdChanged, sdAdded, sdToCopy, sdVisited, sdCopied, sdRuns, SdOthers>>

\* syncDeps: go mod vendor; copyInstrumentationToVendor collects pkgPaths.
GoModVendor ==
    /\ sdPc = "vendor"
    /\ sdCommands' = Append(sdCommands, CmdModVendor)
    /\ \/ SyncReturns("failed to sync vendor directory") /\ UNCHANGED sdToCopy
       \/ /\ sdToCopy' = PkgPaths(sdRules)
          /\ sdPc' = "copy"
          /\ UNCHANGED sdErr
    /\ UNCHANGED <<sdRules, sdManifest, sdManifest0, sdModfile, sdVendor, sdMissing, sdCopyFails,
                   sdIdx, sdChanged, sdAdded, sdWrote, sdVisited, sdCopied, sdRuns, SdOthers>>

\* copyInstrumentationToVendor, one iteration of the range over pkgPaths,
\* which visits the map in any order: a module without local path is
\* skipped, a failed copyDir is returned at once.
CopyModule ==
    /\ sdPc = "copy"
    /\ \E modulePath \in sdToCopy :
          /\ sdToCopy' = sdToCopy \ {modulePath}
          /\ sdVisited' = Append(sdVisited, modulePath)
          /\ IF modulePath \in sdMissing
             THEN UNCHANGED <<sdPc, sdErr, sdCopied>>
             ELSE IF modulePath \in sdCopyFails
             THEN /\ SyncReturns("failed to copy instrumentation package to vendor")
                  /\ UNCHANGED sdCopied
             ELSE /\ sdCopied' = sdCopied \cup {modulePath}
                  /\ UNCHANGED <<sdPc, sdErr>>
    /\ UNCHANGED <<sdRules, sdManifest, sdManifest0, sdModfile, sdVendor, sdMissing, sdCopyFails,
                   sdIdx, sdChanged, sdAdded, sdWrote, sdCommands, sdRuns, SdOthers>>

\* syncDeps: fixVendorModulesTxt, after every module has been visited.
FixVendorModulesTxt ==
    /\ sdPc = "copy"
    /\ sdToCopy = {}
    /\ \E err \in {"", "failed to read vendor/modules.txt"} : SyncReturns(err)
    /\ UNCHANGED <<sdRules, sdManifest, sdManifest0, sdModfile, sdVendor, sdMissing, sdCopyFails,
                   sdIdx, sdChanged, sdAdded, sdWrote, sdCommands, sdToCopy, sdVisited, sdCopied,
                   sdRuns, SdOthers>>

\* Setup runs again on the project as the last run left it.
RunAgain ==
    /\ sdPc = "returned"
    /\ sdRuns < MaxRuns
    /\ sdPc' = "start"
    /\ UNCHANGED <<sdRules, sdManifest, sdManifest0, sdModfile, sdVendor, sdMissing, sdCopyFails,
                   sdIdx, sdChanged, sdAdded, sdWrote, sdCommands, sdToCopy, sdVisited, sdCopied,
                   sdRuns, sdErr, SdOthers>>

InitSyncDeps ==
    /\ windows = FALSE
    /\ SplitIdle
    /\ MvIdle
    /\ AdIdle
    /\ ShIdle
    /\ FfIdle
    /\ MfIdle
    /\ CoIdle
    /\ FvIdle
    /\ BtIdle
    /\ CgIdle
    /\ RmIdle
    /\ LdIdle
    /\ GpIdle
    /\ GbIdle
    /\ MdIdle
    /\ sdPc = "start"
    /\ sdRules \in RuleLists
    /\ sdManifest \in Manifests
    /\ sdManifest0 = sdManifest
    /\ sdModfile = <<>>
    /\ sdVendor \in BOOLEAN
    /\ sdMissing \in SUBSET {PkgModule, HookA, HookB}
    /\ sdCopyFails \in SUBSET {PkgModule, HookA, HookB}
    /\ sdVendor = FALSE => sdMissing = {} /\ sdCopyFails = {}
    /\ sdIdx = 1
    /\ sdChanged = FALSE
    /\ sdAdded = {}
    /\ sdWrote = FALSE
    /\ sdCommands = <<>>
    /\ sdToCopy = {}
    /\ sdVisited = <<>>
    /\ sdCopied = {}
    /\ sdRuns = 0
    /\ sdErr = ""

NextSyncDeps ==
    \/ SyncStart
    \/ AddRuleReplace
    \/ AddPkgReplace
    \/ WriteGoMod
    \/ GoModVendor
    \/ CopyModule
    \/ FixVendorModulesTxt
    \/ RunAgain

SpecSyncDeps == InitSyncDeps /\ [][NextSyncDeps]_vars

\* C24: when copyInstrumentationToVendor has ended, every module of
\* pkgPaths whose local source exists and whose own copy does not fail has
\* been copied, whether or not the copy of another module failed.
C24_OtherModulesStillCopied ==
    (sdPc = "returned" /\ Len(sdVisited) > 0)
    => \A modulePath \in PkgPaths(sdRules) :
          (modulePath \notin sdMissing /\ modulePath \notin sdCopyFails)
          => modulePath \in sdCopied

\* The replace directives of a manifest for a path.
Redirects(manifest, path) ==
    {k \in 1..Len(manifest) : manifest[k].old = path}

\* C25: whatever the number of runs, go.mod keeps every replace directive
\* it had, a path gets a directive only when it had none and then exactly
\* one, pointing to its local path; a run that adds none neither writes
\* go.mod nor starts go mod tidy or go mod vendor.
C25_RedirectOnlyWhenAbsent ==
    /\ \A k \in 1..Len(sdManifest0) : sdManifest[k] = sdManifest0[k]
    /\ \A k \in Len(sdManifest0) + 1..Len(sdManifest) :
          /\ Redirects(sdManifest, sdManifest[k].old) = {k}
          /\ sdManifest[k].new = LocalPath(sdManifest[k].old)
    /\ \A path \in sdAdded : Redirects(sdManifest, path) \subseteq Redirects(sdModfile, path)
    /\ (sdPc = "returned" /\ sdAdded = {}) => ~sdWrote /\ sdCommands = <<>> /\ sdCopied = {}

C25_Witness ==
    /\ sdPc = "returned"
    /\ sdRuns = MaxRuns
    /\ sdRules = <<HookA, HookB>>
    /\ sdManifest0 = <<Replace(HookA, Elsewhere)>>
    /\ sdManifest = <<Replace(HookA, Elsewhere), Replace(HookB, LocalPath(HookB)),
                      Replace(PkgModule, LocalPath(PkgModule))>>
    /\ sdAdded = {}
    /\ ~sdWrote

(***************************************************************************)
(* The version of a dependency: findModVersion and findDeps                *)
(***************************************************************************)
IsDigit(c) == c \in {"0", "1", "2", "3", "4", "5", "6", "7", "8", "9"}

\* s[i], or "" past the ends.
At(s, i) == IF i \in 1..Len(s) THEN s[i] ELSE ""

\* \d+ from position i: the position after the digits, i when there is none.
RECURSIVE DigitsEnd(_, _)
DigitsEnd(s, i) == IF IsDigit(At(s, i)) THEN DigitsEnd(s, i + 1) ELSE i

\* The first "/" of s at or after position i, 0 when there is none.
RECURSIVE FirstSlashFrom(_, _)
FirstSlashFrom(s, i) ==
    IF i > Len(s) THEN 0
    ELSE IF s[i] = SLASH THEN i ELSE FirstSlashFrom(s, i + 1)

\* versionRegexp, `@v\d+\.\d+\.\d+(-.*?)?/`, matched at position i: the
\* position of the closing "/", 0 without a match.
VersionRegexpAt(s, i) ==
    LET major == DigitsEnd(s, i + 2)
        minor == DigitsEnd(s, major + 1)
        patch == DigitsEnd(s, minor + 1)
    IN  IF At(s, i) # "@" \/ At(s, i + 1) # "v" THEN 0
        ELSE IF major = i + 2 \/ At(s, major) # "." THEN 0
        ELSE IF minor = major + 1 \/ At(s, minor) # "." THEN 0
        ELSE IF patch = minor + 1 THEN 0
        ELSE IF At(s, patch) = "-" THEN FirstSlashFrom(s, patch + 1)
        ELSE IF At(s, patch) = SLASH THEN patch
        ELSE 0

\* filepath.ToSlash(path)
ToSlash(path, isWindows) ==
    IF isWindows THEN ReplaceAll(path, <<BSLASH>>, <<SLASH>>) ELSE path

\* findModVersion: the leftmost match of versionRegexp in the path, without
\* its first and last character; "" without a match.
findModVersion(path, isWindows) ==
    LET p == ToSlash(path, isWindows)
        found == {i \in 1..Len(p) : VersionRegexpAt(p, i) > 0}
    IN  IF found = {} THEN <<>>
        ELSE LET i == CHOOSE j \in found : \A k \in found : j <= k
             IN  SubSeq(p, i + 1, VersionRegexpAt(p, i) - 1)

\* The source paths of the dependencies: a file of the project, an overlay
\* file, files of the module cache, with and without prerelease, one below
\* a second versioned directory, one with build metadata, one of a module
\* whose path ends in a major version only, and one with backslashes.
SourcePaths ==
    {<<"/", "w", "/", "m", "a", "i", "n", ".", "g", "o">>, <<"/", "t", "m", "p", "/", "o", "v", "e", "r", "l", "a", "y", "/", "a", ".", "g", "o">>, <<"/", "m", "/", "p", "@", "v", "1", ".", "2", ".", "3", "/", "a", ".", "g", "o">>, <<"/", "m", "/", "p", "@", "v", "1", ".", "1", "0", ".", "0", "-", "r", "c", ".", "1", "/", "s", "u", "b", "/", "b", ".", "g", "o">>,
     <<"/", "m", "/", "p", "@", "v", "1", ".", "2", ".", "3", "/", "x", "/", "q", "@", "v", "2", ".", "0", ".", "0", "/", "c", ".", "g", "o">>, <<"/", "m", "/", "p", "@", "v", "1", ".", "2", ".", "3", "+", "m", "e", "t", "a", "/", "d", ".", "g", "o">>,
     <<"/", "m", "/", "p", "/", "v", "2", "@", "v", "2", ".", "1", "/", "e", ".", "g", "o">>,
     <<"c", ":", BSLASH, "m", BSLASH, "p", "@", "v", "0", ".", "9", ".", "1", BSLASH, "f", ".", "g", "o">>}

MaxSources == 2
SourceLists == UNION {[1..n -> SourcePaths] : n \in 0..MaxSources}

FvOthers == <<splitVars, mvVars, adVars, shVars, btVars, cgVars, rmVars, ldVars, gpVars, gbVars, mdVars, sdVars, coVars, mfVars, ffVars>>

\* findDeps: the version is extracted from the first source.
FindDepsVersion ==
    /\ fvPc = "sources"
    /\ fvVersion' = IF Len(fvSources) > 0 THEN findModVersion(fvSources[1], windows) ELSE <<>>
    /\ fvPc' = "done"
    /\ UNCHANGED <<windows, fvSources, FvOthers>>

InitModVersion ==
    /\ windows \in BOOLEAN
    /\ SplitIdle
    /\ MvIdle
    /\ AdIdle
    /\ ShIdle
    /\ FfIdle
    /\ MfIdle
    /\ CoIdle
    /\ BtIdle
    /\ CgIdle
    /\ RmIdle
    /\ LdIdle
    /\ GpIdle
    /\ GbIdle
    /\ MdIdle
    /\ SdIdle
    /\ fvPc = "sources"
    /\ fvSources \in SourceLists
    /\ fvVersion = <<>>

NextModVersion == FindDepsVersion

SpecModVersion == InitModVersion /\ [][NextModVersion]_vars

\* The sources of the dependency that carry a version segment.
Versioned == {k \in 1..Len(fvSources) : findModVersion(fvSources[k], windows) # <<>>}

\* C26: whenever a source path of the dependency carries a version segment,
\* the version of the dependency is not empty and is the version of the
\* first such path.
C26_VersionOfFirstVersionedSource ==
    (fvPc = "done" /\ Versioned # {})
    => /\ fvVersion # <<>>
       /\ \E k \in Versioned :
             /\ \A j \in Versioned : k <= j
             /\ fvVersion = findModVersion(fvSources[k], windows)

(***************************************************************************)
(* The CGO object directories of the build plan: findCgoObjDirs            *)
(***************************************************************************)
FlagObjdir == <<"-", "o", "b", "j", "d", "i", "r">>
FlagImportpath == <<"-", "i", "m", "p", "o", "r", "t", "p", "a", "t", "h">>
FlagDynimport == <<"-", "d", "y", "n", "i", "m", "p", "o", "r", "t">>

\* strings.TrimSpace(s), for spaces and tabs.
RECURSIVE TrimLeft(_)
TrimLeft(s) == IF Len(s) > 0 /\ s[1] \in {SP, TAB} THEN TrimLeft(Tail(s)) ELSE s
RECURSIVE TrimRight(_)
TrimRight(s) ==
    IF Len(s) > 0 /\ s[Len(s)] \in {SP, TAB} THEN TrimRight(SubSeq(s, 1, Len(s) - 1)) ELSE s
TrimSpace(s) == TrimRight(TrimLeft(s))

\* parseCdDir: [dir, ok]; of "cd dir rest" the first word after "cd ".
parseCdDir(line) ==
    IF ~HasPrefix(line, <<"c", "d", " ">>) THEN [dir |-> <<>>, ok |-> FALSE]
    ELSE LET rest == SubSeq(line, 4, Len(line))
             sp == {i \in 1..Len(rest) : rest[i] = SP}
             first == IF sp = {} THEN rest
                      ELSE SubSeq(rest, 1, (CHOOSE i \in sp : \A j \in sp : i <= j) - 1)
         IN  [dir |-> TrimSpace(first), ok |-> TRUE]

\* An isCgoCommand that accepts the -dynimport mode of the tool.
isCgoCommandAnyMode(line) ==
    IF ~Contains(line, <<"/", "c", "g", "o", " ">>) /\ ~Contains(line, <<"/", "c", "g", "o", ".", "e", "x", "e", " ">>) THEN FALSE
    ELSE IF ~Contains(line, FlagImportpath) THEN FALSE
    ELSE TRUE

\* isCgoCommand
isCgoCommand(line) ==
    IF ~Contains(line, <<"/", "c", "g", "o", " ">>) /\ ~Contains(line, <<"/", "c", "g", "o", ".", "e", "x", "e", " ">>) THEN FALSE
    ELSE IF ~Contains(line, FlagImportpath) THEN FALSE
    ELSE IF Contains(line, FlagDynimport) THEN FALSE
    ELSE TRUE

\* The lines of a build plan log: cd lines, without and with a trailing
\* comment; cgo lines that name one object directory with and without its
\* trailing slash; a cgo line in -dynimport mode, one without -importpath,
\* one that ends with -objdir.
LogLines ==
    {<<"c", "d", " ", "/", "a">>, <<"c", "d", " ", "/", "b", " ", "#", " ", "p", "k", "g">>,
     <<"/", "t", "/", "c", "g", "o", " ", "-", "o", "b", "j", "d", "i", "r", " ", "$", "W", "/", "b", "1", "/", " ", "-", "i", "m", "p", "o", "r", "t", "p", "a", "t", "h", " ", "p", " ", "-", "-", " ", "x", ".", "g", "o">>,
     <<"/", "t", "/", "c", "g", "o", " ", "-", "o", "b", "j", "d", "i", "r", " ", "$", "W", "/", "b", "1", " ", "-", "i", "m", "p", "o", "r", "t", "p", "a", "t", "h", " ", "p", " ", "-", "-", " ", "y", ".", "g", "o">>,
     <<"/", "t", "/", "c", "g", "o", " ", "-", "o", "b", "j", "d", "i", "r", " ", "$", "W", "/", "b", "2", "/", " ", "-", "i", "m", "p", "o", "r", "t", "p", "a", "t", "h", " ", "p", " ", "-", "d", "y", "n", "i", "m", "p", "o", "r", "t", " ", "$", "W", "/", "b", "2", "/", "_", "c", "g", "o", "_", ".", "o">>,
     <<"/", "t", "/", "c", "g", "o", " ", "-", "o", "b", "j", "d", "i", "r", " ", "$", "W", "/", "b", "3", "/", " ", "-", "-", " ", "z", ".", "g", "o">>,
     <<"/", "t", "/", "c", "g", "o", " ", "-", "i", "m", "p", "o", "r", "t", "p", "a", "t", "h", " ", "p", " ", "-", "o", "b", "j", "d", "i", "r">>}

MaxLogLines == 4
Logs == UNION {[1..n -> LogLines] : n \in 0..MaxLogLines}

CoOthers == <<splitVars, mvVars, adVars, shVars, btVars, cgVars, rmVars, ldVars, gpVars, gbVars, mdVars, sdVars, fvVars, mfVars, ffVars>>

\* findCgoObjDirs, one iteration of the scanner loop: a cd line sets
\* currentDir; a cgo line, below a directory, records its object directory.
\* util.FindFlagValue panics on a line that ends with -objdir.
ScanLine ==
    /\ coPc = "scan"
    /\ coLine <= Len(coLog)
    /\ LET line == ToSlash(TrimSpace(coLog[coLine]), windows)
           cd == parseCdDir(line)
           objDir == FindFlagValue(SplitCompileCmds(line, windows), FlagObjdir)
           normalized == TrimSuffix(ToSlash(objDir, windows), <<SLASH>>)
       IN  IF cd.ok
           THEN /\ coCurrentDir' = cd.dir
                /\ coLine' = coLine + 1
                /\ UNCHANGED <<coPc, coMap>>
           ELSE IF isCgoCommand(line) /\ coCurrentDir # <<>>
           THEN IF objDir = IndexOutOfRange
                THEN /\ coPc' = "panicked"
                     /\ UNCHANGED <<coLine, coCurrentDir, coMap>>
                ELSE /\ coMap' = IF objDir # <<>>
                                 THEN {e \in coMap : e.objDir # normalized}
                                      \cup {[objDir |-> normalized, dir |-> coCurrentDir]}
                                 ELSE coMap
                     /\ coLine' = coLine + 1
                     /\ UNCHANGED <<coPc, coCurrentDir>>
           ELSE /\ coLine' = coLine + 1
                /\ UNCHANGED <<coPc, coCurrentDir, coMap>>
    /\ UNCHANGED <<windows, coLog, CoOthers>>

\* findCgoObjDirs: the scanner is at the end of the log, the map is returned.
ScanReturn ==
    /\ coPc = "scan"
    /\ coLine > Len(coLog)
    /\ coPc' = "returned"
    /\ UNCHANGED <<windows, coLog, coLine, coCurrentDir, coMap, CoOthers>>

InitCgoObjDirs ==
    /\ windows = FALSE
    /\ SplitIdle
    /\ MvIdle
    /\ AdIdle
    /\ ShIdle
    /\ FfIdle
    /\ MfIdle
    /\ BtIdle
    /\ CgIdle
    /\ RmIdle
    /\ LdIdle
    /\ GpIdle
    /\ GbIdle
    /\ MdIdle
    /\ SdIdle
    /\ FvIdle
    /\ coPc = "scan"
    /\ coLog \in Logs
    /\ coLine = 1
    /\ coCurrentDir = <<>>
    /\ coMap = {}

NextCgoObjDirs ==
    \/ ScanLine
    \/ ScanReturn

SpecCgoObjDirs == InitCgoObjDirs /\ [][NextCgoObjDirs]_vars

\* Line k of the log as the scanner reads it.
Scanned(k) == ToSlash(TrimSpace(coLog[k]), windows)

\* The lines before line n that are cd lines.
CdLinesBefore(n) == {j \in 1..(n - 1) : HasPrefix(Scanned(j), <<"c", "d", " ">>)}

\* Line k invokes the cgo tool and is none of: in -dynimport mode, without
\* -importpath, before any cd line.
CgoLine(k) ==
    /\ Contains(Scanned(k), <<"/", "c", "g", "o", " ">>) \/ Contains(Scanned(k), <<"/", "c", "g", "o", ".", "e", "x", "e", " ">>)
    /\ ~Contains(Scanned(k), FlagDynimport)
    /\ Contains(Scanned(k), FlagImportpath)
    /\ CdLinesBefore(k) # {}

\* The object directory line k names, without its trailing slash.
ObjDirOf(k) ==
    TrimSuffix(ToSlash(FindFlagValue(SplitCompileCmds(Scanned(k), windows), FlagObjdir), windows),
               <<SLASH>>)

\* The cgo lines among the scanned ones that name object directory objDir.
Naming(objDir) ==
    {k \in 1..(coLine - 1) :
        /\ CgoLine(k)
        /\ FindFlagValue(SplitCompileCmds(Scanned(k), windows), FlagObjdir) # <<>>
        /\ ObjDirOf(k) = objDir}

\* The largest element of a non-empty set of numbers.
Latest(S) == CHOOSE k \in S : \A j \in S : j <= k

\* C27: at every point of the scan and after it, an object directory is
\* recorded exactly when a cgo line that is not in -dynimport mode, carries
\* -importpath and follows a cd line has named it, and it maps to the
\* directory of the most recent cd line before the last such line.
C27_ObjDirMapsToLastCd ==
    coPc \in {"scan", "returned"}
    => /\ \A e \in coMap :
             /\ Naming(e.objDir) # {}
             /\ e.dir = parseCdDir(Scanned(Latest(CdLinesBefore(Latest(Naming(e.objDir)))))).dir
             /\ \A f \in coMap : f.objDir = e.objDir => f = e
       /\ \A k \in 1..(coLine - 1) :
             Naming(ObjDirOf(k)) # {} => \E e \in coMap : e.objDir = ObjDirOf(k)

C27_Witness ==
    /\ coPc = "returned"
    /\ coLog = <<<<"c", "d", " ", "/", "a">>, <<"/", "t", "/", "c", "g", "o", " ", "-", "o", "b", "j", "d", "i", "r", " ", "$", "W", "/", "b", "1", "/", " ", "-", "i", "m", "p", "o", "r", "t", "p", "a", "t", "h", " ", "p", " ", "-", "-", " ", "x", ".", "g", "o">>, <<"c", "d", " ", "/", "b", " ", "#", " ", "p", "k", "g">>,
                 <<"/", "t", "/", "c", "g", "o", " ", "-", "o", "b", "j", "d", "i", "r", " ", "$", "W", "/", "b", "1", " ", "-", "i", "m", "p", "o", "r", "t", "p", "a", "t", "h", " ", "p", " ", "-", "-", " ", "y", ".", "g", "o">>>>
    /\ coMap = {[objDir |-> <<"$", "W", "/", "b", "1">>, dir |-> <<"/", "b">>]}

(***************************************************************************)
(* The matched-modules filter: from the build wrapper to the shim          *)
(***************************************************************************)
MaxRuleSets == 2

\* The module paths of the rule sets Setup returns after storing them.
StoredModulePaths == UNION {[1..n -> {PathMain, PathDep}] : n \in 0..MaxRuleSets}

\* os.Environ() of the wrapper, as the values given to OTEL_MATCHED_MODULES:
\* none, the empty string, or the list of another build.
Ambients == {<<>>, <<<<>>>>, <<PathDep>>}

\* util.RunCmdWithEnv: the variable as the child process reads it, the last
\* value given for it.
RunCmdWithEnv(env) == IF env = <<>> THEN EnvUnset ELSE EnvSet(env[Len(env)])

MfOthers == <<windows, splitVars, mvVars, adVars, btVars, cgVars, rmVars, ldVars, gpVars, gbVars, mdVars, sdVars, fvVars, coVars, ffVars>>

\* BuildWithToolexec: the child inherits os.Environ().
BuildWithToolexec ==
    /\ shPc = "wrapper"
    /\ shEnv' = RunCmdWithEnv(mfAmbient)
    /\ mfExported' = FALSE
    /\ shPc' = "start"
    /\ UNCHANGED <<shArgs, shAllSet, shMatched, shCompileArgs, shFileRuleIdx, shPending, shFile,
                   shRules, shHasFuncRule, shApplied, shLoaded, shWritten, shExecuted, shErr>>
    /\ UNCHANGED <<mfMatched, mfAmbient, MfOthers>>

\* BuildWithToolexecAndModules: the module paths of matched, joined with
\* commas, are appended to os.Environ().
BuildWithToolexecAndModules ==
    /\ shPc = "wrapper"
    /\ shEnv' = RunCmdWithEnv(Append(mfAmbient, Join(mfMatched, <<COMMA>>)))
    /\ mfExported' = TRUE
    /\ shPc' = "start"
    /\ UNCHANGED <<shArgs, shAllSet, shMatched, shCompileArgs, shFileRuleIdx, shPending, shFile,
                   shRules, shHasFuncRule, shApplied, shLoaded, shWritten, shExecuted, shErr>>
    /\ UNCHANGED <<mfMatched, mfAmbient, MfOthers>>

InitFilter ==
    /\ windows \in BOOLEAN
    /\ SplitIdle
    /\ MvIdle
    /\ AdIdle
    /\ FfIdle
    /\ BtIdle
    /\ CgIdle
    /\ RmIdle
    /\ LdIdle
    /\ GpIdle
    /\ GbIdle
    /\ MdIdle
    /\ SdIdle
    /\ FvIdle
    /\ CoIdle
    /\ mfMatched \in StoredModulePaths
    /\ mfAmbient \in Ambients
    /\ mfExported = FALSE
    /\ shArgs \in CommandLines
    /\ shEnv = EnvUnset
    /\ shPc = "wrapper"
    /\ shAllSet = <<>>
    /\ shMatched = NoRuleSet
    /\ shCompileArgs = <<>>
    /\ shFileRuleIdx = 1
    /\ shPending = {}
    /\ shFile = <<>>
    /\ shRules = <<>>
    /\ shHasFuncRule = FALSE
    /\ shApplied = <<>>
    /\ shLoaded = FALSE
    /\ shWritten = {}
    /\ shExecuted = <<>>
    /\ shErr = ""

NextFilter ==
    \/ BuildWithToolexec
    \/ BuildWithToolexecAndModules
    \/ ToolexecStart

SpecFilter == InitFilter /\ [][NextFilter]_vars

\* The shim was started for a compile command of a package that a stored
\* rule set names, and the variable is one the wrapper exported, or empty,
\* or not set.
InstrumentablePackage ==
    /\ shPc \notin {"wrapper", "start"}
    /\ IsCompileCommand(Join(shArgs, <<SP>>), windows)
    /\ \E k \in 1..Len(mfMatched) : FindFlagValue(shArgs, FlagP) = mfMatched[k]
    /\ mfExported \/ ~shEnv.set \/ shEnv.value = <<>>

\* C28: a compile command of a package that a stored rule set names is never
\* executed unchanged on the fast path: the shim goes on to interceptCompile.
C28_FilterKeepsInstrumentable ==
    InstrumentablePackage => shPc = "intercept" /\ shExecuted = <<>>

C28_Witness ==
    /\ InstrumentablePackage
    /\ mfExported
    /\ mfMatched = <<PathDep, PathMain>>
    /\ FindFlagValue(shArgs, FlagP) = PathMain
    /\ shEnv = EnvSet(Join(<<PathDep, PathMain>>, <<COMMA>>))
    /\ shPc = "intercept"

(***************************************************************************)
(* util.FindFlagValue on any argument list                                 *)
(***************************************************************************)
MaxCmdLen == 4

\* Argument lists of flags and values, in any order.
ArgumentLists == UNION {[1..n -> {FlagP, FlagO, PathMain}] : n \in 0..MaxCmdLen}

FfOthers == <<windows, splitVars, mvVars, adVars, shVars, btVars, cgVars, rmVars, ldVars, gpVars, gbVars, mdVars, sdVars, fvVars, coVars, mfVars>>

\* A call of FindFlagValue(cmd, flag): it returns a value or panics.
CallFindFlagValue ==
    /\ ffPc = "call"
    /\ LET v == FindFlagValue(ffCmd, ffFlag)
       IN  IF v = IndexOutOfRange
           THEN ffPc' = "panicked" /\ UNCHANGED ffValue
           ELSE ffPc' = "returned" /\ ffValue' = v
    /\ UNCHANGED <<ffCmd, ffFlag, FfOthers>>

InitFindFlag ==
    /\ windows = FALSE
    /\ SplitIdle
    /\ MvIdle
    /\ AdIdle
    /\ ShIdle
    /\ BtIdle
    /\ CgIdle
    /\ RmIdle
    /\ LdIdle
    /\ GpIdle
    /\ GbIdle
    /\ MdIdle
    /\ SdIdle
    /\ FvIdle
    /\ CoIdle
    /\ MfIdle
    /\ ffPc = "call"
    /\ ffCmd \in ArgumentLists
    /\ ffFlag \in {FlagP, FlagO}
    /\ ffValue = <<>>

NextFindFlag == CallFindFlagValue

SpecFindFlag == InitFindFlag /\ [][NextFindFlag]_vars

\* The positions of the flag in the argument list.
Occurrences == {i \in 1..Len(ffCmd) : ffCmd[i] = ffFlag}

\* C30: a call of FindFlagValue never fails; it returns the element after
\* the first occurrence of the flag, and the empty string when the flag does
\* not occur or occurs only as the last element.
C30_FindFlagValueTotal ==
    /\ ffPc # "panicked"
    /\ ffPc = "returned" =>
          IF Occurrences = {} \/ Occurrences = {Len(ffCmd)}
          THEN ffValue = <<>>
          ELSE \E i \in Occurrences :
                  /\ \A j \in Occurrences : i <= j
                  /\ ffValue = ffCmd[i + 1]

====
